---- MODULE Spec2Model ----
(***************************************************************************)
(* Gateway client of discord_go (src/src/client/client.go).                *)
(*                                                                         *)
(* Spec is the current revision of the client (client.go lines 1-390, the  *)
(* fields are atomics) as the program of main runs it: ConnectToGateway    *)
(* does the handshake and then runs the coordinator loop of                *)
(* startListening, beside the reader goroutine and the heartbeat goroutine *)
(* of startHeartbeat, until it returns; the context may be cancelled at    *)
(* any time.  Every step is one operation on the shared fields, on a       *)
(* channel or on the transport, so that the goroutines interleave as they  *)
(* do in the program.                                                      *)
(*                                                                         *)
(* SpecApi adds an embedding program that also calls Disconnect.           *)
(* SpecV1 is the first revision of the client (client.go lines 392-738),   *)
(* which has resumeOldConnection.                                          *)
(***************************************************************************)
EXTENDS Integers, Sequences, FiniteSets, TLC

(* ---------------------------------------------------------------------- *)
(* Bounds of the model                                                     *)
(* ---------------------------------------------------------------------- *)
\* frames the server delivers after the Hello
MaxFrames == 2
\* the same, when the embedding program also calls Disconnect
MaxApiFrames == 1
\* ticks of the heartbeat ticker
MaxTicks == 2
\* calls of Disconnect by the embedding program
MaxDisconnects == 2
\* connections dialed
MaxConns == 3
\* frames the server delivers to the first revision after the Hello
MaxFramesV1 == 3
\* runs of ConnectToGateway on the one client
MaxRuns == 2
\* frames the server delivers in a burst: more than messageChannel holds
MaxBurst == 12

(* ---------------------------------------------------------------------- *)
(* opcodes/opcodes.go: const ( Dispatch = iota ... )                       *)
(* ---------------------------------------------------------------------- *)
Dispatch == 0
Heartbeat == 1
Identify == 2
PresenceUpdate == 3
VoiceStateUpdate == 4
Resume == 5
Reconnect == 6
RequestGuildMembers == 7
InvalidSession == 8
Hello == 9
HeartbeatACK == 10

\* the operation codes of the gateway protocol where they differ from the
\* constants above, as the comment at the head of opcodes.go lists them
GatewayResume == 6
GatewayReconnect == 7
GatewayInvalidSession == 9
GatewayHello == 10
GatewayHeartbeatACK == 11

\* an operation code the client has no case for
UnknownOp == 11

\* capacity of messageChannel
ChanCap == 10

\* a channel on which a send never blocks
CanSendAlways(q) == TRUE

\* c.messageChannel <- messageBody can proceed: the buffer has room
CanSend(q) == Len(q) < ChanCap

\* sequence.Store(-1) in NewBot
InitialSequence == -1

\* time.Millisecond, in the nanoseconds of a time.Duration
Millisecond == 1000000

(* ---------------------------------------------------------------------- *)
(* Wire data                                                               *)
(* ---------------------------------------------------------------------- *)
\* json.RawMessage payload "d" of a packet, by its JSON shape
DNull == [kind |-> "null", sid |-> "", url |-> "", flag |-> FALSE]
DBad == [kind |-> "bad", sid |-> "", url |-> "", flag |-> FALSE]
DBool(b) == [kind |-> "bool", sid |-> "", url |-> "", flag |-> b]
DObject(sid, url) == [kind |-> "object", sid |-> sid, url |-> url, flag |-> FALSE]

\* type Packet: op, t, d, s; wf is FALSE for a body that is not a JSON packet;
\* n is history: the position of the frame among the frames the reader read
Packet(op, t, d, s) ==
    [wf |-> TRUE, op |-> op, t |-> t, d |-> d, s |-> s, n |-> 0]
Garbage == [wf |-> FALSE, op |-> 0, t |-> "", d |-> DBad, s |-> 0, n |-> 0]
\* value of a message local that is out of scope
NoMessage == [wf |-> FALSE, op |-> 0, t |-> "", d |-> DNull, s |-> 0, n |-> 0]

\* the body conn.ReadMessage() returns for frame f, read as the k-th frame
Received(f, k) == [f EXCEPT !.n = k]

\* a send that puts the body in front of the buffered ones
EnqueueInFront(q, body) == <<body>> \o q

\* c.messageChannel <- messageBody on a channel with room
Enqueue(q, body) == Append(q, body)

\* a decoder of ReadyData that takes each field for the other
UnmarshalReadySwapped(d) ==
    IF d.kind = "object" THEN [err |-> FALSE, SessionId |-> d.url, ResumeUrl |-> d.sid]
    ELSE IF d.kind = "null" THEN [err |-> FALSE, SessionId |-> "", ResumeUrl |-> ""]
    ELSE [err |-> TRUE, SessionId |-> "", ResumeUrl |-> ""]

\* json.Unmarshal(message.D, &data) for ReadyData: an object fills the fields
\* (absent ones stay empty), null leaves the zero value, anything else fails
UnmarshalReady(d) ==
    IF d.kind = "object" THEN [err |-> FALSE, SessionId |-> d.sid, ResumeUrl |-> d.url]
    ELSE IF d.kind = "null" THEN [err |-> FALSE, SessionId |-> "", ResumeUrl |-> ""]
    ELSE [err |-> TRUE, SessionId |-> "", ResumeUrl |-> ""]

\* json.Unmarshal(data, &canResume) for a bool
UnmarshalBool(d) ==
    IF d.kind = "bool" THEN [err |-> FALSE, val |-> d.flag]
    ELSE IF d.kind = "null" THEN [err |-> FALSE, val |-> FALSE]
    ELSE [err |-> TRUE, val |-> FALSE]

\* sequence numbers the server stamps on events
SeqVals == {3, 5}

\* the frames the server may deliver after the handshake
ServerFrames ==
    {Packet(Dispatch, "READY", DObject("abc", "wss://x"), 1),
     Packet(Dispatch, "READY", DObject("", "wss://x"), 1),
     Packet(Dispatch, "READY", DBad, 1)}
    \cup {Packet(Dispatch, "MESSAGE_CREATE", DNull, s) : s \in SeqVals}
    \cup {Packet(HeartbeatACK, "", DNull, 0),
          Packet(Heartbeat, "", DNull, 0),
          Packet(Reconnect, "", DNull, 0),
          Packet(GatewayReconnect, "", DNull, 0),
          Packet(InvalidSession, "", DBool(TRUE), 0),
          Packet(InvalidSession, "", DBool(FALSE), 0),
          Packet(GatewayInvalidSession, "", DBool(TRUE), 0),
          Packet(UnknownOp, "", DNull, 0),
          Garbage}

\* frames of every operation code of handleMessage stamped with a sequence
\* number, and the acknowledgment that lets a second heartbeat be sent
SequencedFrames ==
    {Packet(Dispatch, "MESSAGE_CREATE", DNull, 3),
     Packet(Heartbeat, "", DNull, 5),
     Packet(Reconnect, "", DNull, 5),
     Packet(InvalidSession, "", DBool(FALSE), 5),
     Packet(UnknownOp, "", DNull, 5),
     Packet(HeartbeatACK, "", DNull, 0)}

\* the frames of a burst of events
BurstFrames == {Packet(Dispatch, "MESSAGE_CREATE", DNull, 3)}

\* heartbeat_interval values of a Hello, in milliseconds: absent (zero), or
\* half a second (a value whose multiples as time.Duration fits the 32-bit integers of TLC)
HelloIntervals == {0, 500}

\* the first frame the server may deliver: HelloMessage{Op, D.HeartbeatInterval}
FirstFrames ==
    {[wf |-> TRUE, op |-> Hello, interval |-> i] : i \in HelloIntervals}
    \cup {[wf |-> TRUE, op |-> HeartbeatACK, interval |-> 500],
          [wf |-> FALSE, op |-> 0, interval |-> 0]}

\* no first frame has been read yet
NoFirstFrame == [wf |-> FALSE, op |-> -1, interval |-> 0]

\* frames written with conn.WriteMessage(messageType, payload) on handle h by
\* goroutine by: the websocket message type, and op, sequence and session id
\* of the payload
TextFrame(op, seq, sid, h, by) ==
    [ws |-> "text", op |-> op, seq |-> seq, sid |-> sid, h |-> h, by |-> by]
CloseFrame(h, by) ==
    [ws |-> "close", op |-> 0, seq |-> 0, sid |-> "", h |-> h, by |-> by]

\* connection handles; Nil is the nil *websocket.Conn
Nil == 0
Handles == 1..MaxConns

Max(a, b) == IF a >= b THEN a ELSE b

\* the sequence number a packet carries; s is 0 when the field is absent
Carried(m) == IF m.s > 0 THEN m.s ELSE InitialSequence

(* ---------------------------------------------------------------------- *)
(* State                                                                   *)
(* ---------------------------------------------------------------------- *)
VARIABLES
    gateway,            \* Client.gateway
    sessionId,          \* Client.sessionId
    resumeGateway,      \* Client.resumeGateway
    heartbeatInterval,  \* Client.heartbeatInterval: a time.Duration in the
                        \* current revision, milliseconds in the first
    lastHeartbeatAcked, \* Client.lastHeartbeatAcked
    sequence,           \* Client.sequence
    isResuming,         \* Client.isResuming
    connection,         \* Client.connection
    messageChannel,     \* Client.messageChannel: the buffered frames
    chanClosed,         \* close(c.messageChannel) has run
    errCh,              \* errCh of startListening
    ctxDone,            \* ctx.Done() is closed
    pc,                 \* position of each goroutine
    hbStage,            \* position inside sendHeartbeat, per calling goroutine
    hbSeq,              \* seq local of sendHeartbeat, per calling goroutine
    mainMsg,            \* message local of handleMessage
    readBuf,            \* messageBody local of the reader goroutine
    listenConn,         \* conn local of startListening and its reader
    dcConn,             \* conn local of Disconnect
    ctgConn,            \* conn local of ConnectToGateway
    connOpen,           \* handles whose transport is open
    dialed,             \* handles dialed so far
    closeCalls,         \* conn.Close() calls per handle
    dcCloseCalls,       \* conn.Close() calls per handle made by Disconnect
    sent,               \* frames written to the transport, in order
    frameBudget,        \* frames the server is going to deliver
    inbound,            \* the frames the server chooses them from
    framesRead,         \* frames read by the reader goroutine
    ticks,              \* ticks delivered by the ticker
    tickerPeriod,       \* the d of time.NewTicker(d), per ticker goroutine
    lastTickAt,         \* the time of the ticker's last tick, counted in
                        \* nanoseconds from its time.NewTicker(d)
    dcCalls,            \* calls of Disconnect started
    runs,               \* calls of ConnectToGateway started
    result,             \* why ConnectToGateway returned
    crashed,            \* the process died of an unrecovered panic
    maxDispatched,      \* history: max of -1 and the s of handled Dispatch packets
    maxHandled,         \* history: max of -1 and the s of the packets that
                        \* handleMessage handled without an error
    hbFloor,            \* history: maxHandled when sendHeartbeat loaded seq
    hbPending,          \* history: a Heartbeat frame was written and neither
                        \* a HeartbeatACK nor a READY has been handled since
    zombieSeen,         \* history: a tick found the Heartbeat frame written last
                        \* unacknowledged
    cancelInLoop,       \* history: cancel() ran while ConnectToGateway was in
                        \* the loop of startListening
    firstFrame,         \* history: the first frame ConnectToGateway read
    lastTaken,          \* history: the position, among the frames read, of the
                        \* frame the loop of startListening received last
    onEventCalls,       \* history: the calls of onEvent, each by the position
                        \* of the packet whose d it was given
    seqBefore,          \* history: the sequence when the loop of startListening
                        \* received the packet it is handling
    writing,            \* the handle whose conn.WriteMessage each unit is
                        \* inside of, Nil when it is in none
    acksHandled         \* history: the heartbeat acknowledgments of the wire
                        \* (op 11) that handleMessage has handled

vars == <<gateway, sessionId, resumeGateway, heartbeatInterval, lastHeartbeatAcked,
          sequence, isResuming, connection, messageChannel, chanClosed, errCh,
          ctxDone, pc, hbStage, hbSeq, mainMsg, readBuf, listenConn, dcConn, ctgConn,
          connOpen, dialed, closeCalls, dcCloseCalls, sent, frameBudget, inbound,
          framesRead, ticks, tickerPeriod, lastTickAt, dcCalls, runs, result, crashed,
          maxDispatched, maxHandled, hbFloor, hbPending, zombieSeen, cancelInLoop,
          firstFrame, lastTaken, onEventCalls, seqBefore, writing, acksHandled>>

\* the state after NewBot: gateway is the url of the bootstrap response
NewBot(acked, frames, kinds) ==
    /\ frameBudget = frames
    /\ inbound = kinds
    /\ lastHeartbeatAcked = acked
    /\ gateway \in {"", "wss://gateway"}
    /\ sessionId = ""
    /\ resumeGateway = ""
    /\ isResuming = FALSE
    /\ heartbeatInterval = 0
    /\ sequence = InitialSequence
    /\ connection = Nil
    /\ messageChannel = <<>>
    /\ chanClosed = FALSE
    /\ errCh = <<>>
    /\ ctxDone = FALSE
    /\ pc = [main |-> "start", reader |-> "off", hb |-> "off", old |-> "off",
             dc |-> "idle"]
    /\ hbStage = [main |-> "none", hb |-> "none", old |-> "none"]
    /\ hbSeq = [main |-> 0, hb |-> 0, old |-> 0]
    /\ mainMsg = NoMessage
    /\ readBuf = NoMessage
    /\ listenConn = Nil
    /\ dcConn = Nil
    /\ ctgConn = Nil
    /\ connOpen = {}
    /\ dialed = 0
    /\ closeCalls = [h \in Handles |-> 0]
    /\ dcCloseCalls = [h \in Handles |-> 0]
    /\ sent = <<>>
    /\ framesRead = 0
    /\ ticks = 0
    /\ tickerPeriod = [hb |-> 0, old |-> 0]
    /\ lastTickAt = [hb |-> 0, old |-> 0]
    /\ dcCalls = 0
    /\ runs = 1
    /\ result = "running"
    /\ crashed = FALSE
    /\ maxDispatched = InitialSequence
    /\ maxHandled = InitialSequence
    /\ hbFloor = [main |-> InitialSequence, hb |-> InitialSequence,
                  old |-> InitialSequence]
    /\ hbPending = FALSE
    /\ zombieSeen = FALSE
    /\ cancelInLoop = FALSE
    /\ firstFrame = NoFirstFrame
    /\ lastTaken = 0
    /\ onEventCalls = <<>>
    /\ seqBefore = InitialSequence
    /\ writing = [main |-> Nil, hb |-> Nil, old |-> Nil, dc |-> Nil]
    /\ acksHandled = 0

\* client.lastHeartbeatAcked.Store(true) in NewBot
Init == NewBot(TRUE, MaxFrames, ServerFrames)

\* the same client in a program that also calls Disconnect
InitApi == NewBot(TRUE, MaxApiFrames, ServerFrames)

\* the same client, with a server that stamps a sequence number on the frames
\* of every operation code
InitSeq == NewBot(TRUE, MaxFrames, SequencedFrames)

\* the same client, with a server that delivers a burst of events
InitBurst == NewBot(TRUE, MaxBurst, BurstFrames)

\* ConnectToGateway returns to its caller with the given reason
Return(reason) ==
    /\ pc' = [pc EXCEPT !.main = "returned"]
    /\ result' = reason

\* conn.Close(): the transport of h is closed, whatever error is reported
Close(h) ==
    /\ connOpen' = connOpen \ {h}
    /\ closeCalls' = [closeCalls EXCEPT ![h] = @ + 1]

\* websocket.DefaultDialer.Dial succeeds: a new open handle
Dial(h) ==
    /\ h = dialed + 1
    /\ dialed' = h
    /\ connOpen' = connOpen \cup {h}

(* ---------------------------------------------------------------------- *)
(* ConnectToGateway                                                        *)
(* ---------------------------------------------------------------------- *)
\* the gateway check and websocket.DefaultDialer.Dial
CtgDial ==
    /\ pc.main = "start"
    /\ \/ /\ gateway = ""
          /\ Return("gateway_unset")
          /\ UNCHANGED <<connection, connOpen, dialed, ctgConn>>
       \/ /\ gateway # ""
          /\ Return("dial_failed")
          /\ UNCHANGED <<connection, connOpen, dialed, ctgConn>>
       \/ /\ gateway # ""
          /\ \E h \in Handles :
                /\ Dial(h)
                /\ connection' = h
                /\ ctgConn' = h
          /\ pc' = [pc EXCEPT !.main = "hello"]
          /\ UNCHANGED result
    /\ UNCHANGED <<gateway, sessionId, resumeGateway, heartbeatInterval,
                   lastHeartbeatAcked, sequence, isResuming, messageChannel,
                   chanClosed, errCh, ctxDone, hbStage, hbSeq, mainMsg, readBuf,
                   listenConn, dcConn, closeCalls, dcCloseCalls, sent, frameBudget,
                   inbound, framesRead, ticks, tickerPeriod, lastTickAt, dcCalls, runs,
                   crashed, maxDispatched, maxHandled, hbFloor, hbPending, zombieSeen,
                   cancelInLoop, firstFrame, lastTaken, onEventCalls, seqBefore,
                   writing, acksHandled>>

\* conn.ReadMessage() of the first frame, its decoding and the Hello check
CtgHello ==
    /\ pc.main = "hello"
    /\ \/ /\ Return("hello_read_failed")
          /\ UNCHANGED <<heartbeatInterval, firstFrame>>
       \/ /\ ctgConn \in connOpen
          /\ \E f \in FirstFrames :
                /\ firstFrame' = f
                /\ IF ~f.wf
                   THEN Return("hello_undecodable") /\ UNCHANGED heartbeatInterval
                   ELSE IF f.op # Hello
                   THEN Return("hello_wrong_op") /\ UNCHANGED heartbeatInterval
                   ELSE /\ heartbeatInterval' = f.interval * Millisecond
                        /\ pc' = [pc EXCEPT !.main = "identify"]
                        /\ UNCHANGED result
    /\ UNCHANGED <<gateway, sessionId, resumeGateway, lastHeartbeatAcked, sequence,
                   isResuming, connection, messageChannel, chanClosed, errCh, ctxDone,
                   hbStage, hbSeq, mainMsg, readBuf, listenConn, dcConn, ctgConn,
                   connOpen, dialed, closeCalls, dcCloseCalls, sent, frameBudget,
                   inbound, framesRead, ticks, tickerPeriod, lastTickAt, dcCalls, runs,
                   crashed, maxDispatched, maxHandled, hbFloor, hbPending, zombieSeen,
                   cancelInLoop, lastTaken, onEventCalls, seqBefore, writing,
                   acksHandled>>

\* identify(), and on success go c.startHeartbeat(ctx)
identify ==
    /\ pc.main = "identify"
    /\ \/ /\ Return("identify_failed")
          /\ UNCHANGED sent
       \/ /\ connection # Nil
          /\ connection \in connOpen
          /\ sent' = Append(sent, TextFrame(Identify, 0, "", connection, "main"))
          /\ pc' = [pc EXCEPT !.main = "listen", !.hb = "newticker"]
          /\ UNCHANGED result
    /\ UNCHANGED <<gateway, sessionId, resumeGateway, heartbeatInterval,
                   lastHeartbeatAcked, sequence, isResuming, connection,
                   messageChannel, chanClosed, errCh, ctxDone, hbStage, hbSeq, mainMsg,
                   readBuf, listenConn, dcConn, ctgConn, connOpen, dialed, closeCalls,
                   dcCloseCalls, frameBudget, inbound, framesRead, ticks, tickerPeriod,
                   lastTickAt, dcCalls, runs, crashed, maxDispatched, maxHandled,
                   hbFloor, hbPending, zombieSeen, cancelInLoop, firstFrame, lastTaken,
                   onEventCalls, seqBefore, writing, acksHandled>>

(* ---------------------------------------------------------------------- *)
(* handleMessage returns                                                   *)
(* ---------------------------------------------------------------------- *)
\* handleMessage returns nil to the loop of startListening: the packet has
\* been handled
Handled ==
    /\ pc' = [pc EXCEPT !.main = "select"]
    /\ maxHandled' = Max(maxHandled, Carried(mainMsg))
    /\ mainMsg' = NoMessage

\* handleMessage returns an error to the loop of startListening, which logs it
\* and goes on with the next frame
Failed ==
    /\ pc' = [pc EXCEPT !.main = "select"]
    /\ mainMsg' = NoMessage
    /\ UNCHANGED maxHandled

(* ---------------------------------------------------------------------- *)
(* sendHeartbeat, as run by goroutine p: "main" (from handleMessage) or    *)
(* "hb" (from startHeartbeat)                                              *)
(* ---------------------------------------------------------------------- *)
\* the goroutines that run startHeartbeat: the one the current run of
\* ConnectToGateway started, and the one an earlier run started
Tickers == {"hb", "old"}

\* sendHeartbeat returns to its caller; ok is FALSE when it returns an error.
\* startHeartbeat and the READY case only log the error; the Heartbeat case of
\* handleMessage returns it, which ends the handling of the packet.
ShReturn(p, ok) ==
    /\ hbStage' = [hbStage EXCEPT ![p] = "none"]
    /\ hbSeq' = [hbSeq EXCEPT ![p] = 0]
    /\ hbFloor' = [hbFloor EXCEPT ![p] = InitialSequence]
    /\ IF p \in Tickers
       THEN pc' = [pc EXCEPT ![p] = "wait"] /\ UNCHANGED <<maxHandled, mainMsg>>
       ELSE IF pc.main = "ready_hb"
       THEN pc' = [pc EXCEPT !.main = "opswitch"] /\ UNCHANGED <<maxHandled, mainMsg>>
       ELSE IF ok
       THEN pc' = [pc EXCEPT !.main = "sequpd"] /\ UNCHANGED <<maxHandled, mainMsg>>
       ELSE Failed

\* if !c.lastHeartbeatAcked.Load() { return error }
ShLoad(p) ==
    /\ hbStage[p] = "load"
    /\ IF lastHeartbeatAcked
       THEN /\ hbStage' = [hbStage EXCEPT ![p] = "store"]
            /\ UNCHANGED <<pc, maxHandled, mainMsg, hbSeq, hbFloor, zombieSeen>>
       ELSE /\ ShReturn(p, FALSE)
            /\ zombieSeen' = (zombieSeen \/ (p \in Tickers /\ hbPending))
    /\ UNCHANGED <<gateway, sessionId, resumeGateway, heartbeatInterval,
                   lastHeartbeatAcked, sequence, isResuming, connection,
                   messageChannel, chanClosed, errCh, ctxDone, readBuf, listenConn,
                   dcConn, ctgConn, connOpen, dialed, closeCalls, dcCloseCalls, sent,
                   frameBudget, inbound, framesRead, ticks, tickerPeriod, lastTickAt,
                   dcCalls, runs, result, crashed, maxDispatched, hbPending,
                   cancelInLoop, firstFrame, lastTaken, onEventCalls, seqBefore,
                   writing, acksHandled>>

\* c.lastHeartbeatAcked.Store(false)
ShStore(p) ==
    /\ hbStage[p] = "store"
    /\ lastHeartbeatAcked' = FALSE
    /\ hbStage' = [hbStage EXCEPT ![p] = "seq"]
    /\ UNCHANGED <<gateway, sessionId, resumeGateway, heartbeatInterval, sequence,
                   isResuming, connection, messageChannel, chanClosed, errCh, ctxDone,
                   pc, hbSeq, mainMsg, readBuf, listenConn, dcConn, ctgConn, connOpen,
                   dialed, closeCalls, dcCloseCalls, sent, frameBudget, inbound,
                   framesRead, ticks, tickerPeriod, lastTickAt, dcCalls, runs, result,
                   crashed, maxDispatched, maxHandled, hbFloor, hbPending, zombieSeen,
                   cancelInLoop, firstFrame, lastTaken, onEventCalls, seqBefore,
                   writing, acksHandled>>

\* seq := c.sequence.Load()
ShLoadSeq(p) ==
    /\ hbStage[p] = "seq"
    /\ hbSeq' = [hbSeq EXCEPT ![p] = sequence]
    /\ hbFloor' = [hbFloor EXCEPT ![p] = maxHandled]
    /\ hbStage' = [hbStage EXCEPT ![p] = "write"]
    /\ UNCHANGED <<gateway, sessionId, resumeGateway, heartbeatInterval,
                   lastHeartbeatAcked, sequence, isResuming, connection,
                   messageChannel, chanClosed, errCh, ctxDone, pc, mainMsg, readBuf,
                   listenConn, dcConn, ctgConn, connOpen, dialed, closeCalls,
                   dcCloseCalls, sent, frameBudget, inbound, framesRead, ticks,
                   tickerPeriod, lastTickAt, dcCalls, runs, result, crashed,
                   maxDispatched, maxHandled, hbPending, zombieSeen, cancelInLoop,
                   firstFrame, lastTaken, onEventCalls, seqBefore, writing,
                   acksHandled>>

\* conn := c.connection.Load(); if conn == nil { return error }; the call of
\* conn.WriteMessage begins
ShEnter(p) ==
    /\ hbStage[p] = "write"
    /\ IF connection = Nil
       THEN /\ ShReturn(p, FALSE)
            /\ UNCHANGED writing
       ELSE /\ hbStage' = [hbStage EXCEPT ![p] = "writing"]
            /\ writing' = [writing EXCEPT ![p] = connection]
            /\ UNCHANGED <<pc, maxHandled, mainMsg, hbSeq, hbFloor>>
    /\ UNCHANGED <<gateway, sessionId, resumeGateway, heartbeatInterval,
                   lastHeartbeatAcked, sequence, isResuming, connection,
                   messageChannel, chanClosed, errCh, ctxDone, readBuf, listenConn,
                   dcConn, ctgConn, connOpen, dialed, closeCalls, dcCloseCalls, sent,
                   frameBudget, inbound, framesRead, ticks, tickerPeriod, lastTickAt,
                   dcCalls, runs, result, crashed, maxDispatched, hbPending,
                   zombieSeen, cancelInLoop, firstFrame, lastTaken, onEventCalls,
                   seqBefore, acksHandled>>

\* conn.WriteMessage(websocket.TextMessage, payload) returns: it may fail
ShWrite(p) ==
    /\ hbStage[p] = "writing"
    /\ writing' = [writing EXCEPT ![p] = Nil]
    /\ \/ /\ ShReturn(p, FALSE)
          /\ UNCHANGED <<sent, hbPending>>
       \/ /\ writing[p] \in connOpen
          /\ sent' = Append(sent, TextFrame(Heartbeat, hbSeq[p], "", writing[p], p))
          /\ hbPending' = TRUE
          /\ ShReturn(p, TRUE)
    /\ UNCHANGED <<gateway, sessionId, resumeGateway, heartbeatInterval,
                   lastHeartbeatAcked, sequence, isResuming, connection,
                   messageChannel, chanClosed, errCh, ctxDone, readBuf, listenConn,
                   dcConn, ctgConn, connOpen, dialed, closeCalls, dcCloseCalls,
                   frameBudget, inbound, framesRead, ticks, tickerPeriod, lastTickAt,
                   dcCalls, runs, result, crashed, maxDispatched, zombieSeen,
                   cancelInLoop, firstFrame, lastTaken, onEventCalls, seqBefore,
                   acksHandled>>

sendHeartbeat(p) ==
    ShLoad(p) \/ ShStore(p) \/ ShLoadSeq(p) \/ ShEnter(p) \/ ShWrite(p)

(* ---------------------------------------------------------------------- *)
(* startHeartbeat                                                          *)
(* ---------------------------------------------------------------------- *)
\* an unrecovered panic ends the process: no goroutine takes another step
Panic ==
    /\ crashed' = TRUE
    /\ pc' = [g \in DOMAIN pc |-> "crashed"]
    /\ hbStage' = [g \in DOMAIN hbStage |-> "none"]

\* time.NewTicker(interval): panics when the interval is not positive
HbStart(g) ==
    /\ pc[g] = "newticker"
    /\ IF heartbeatInterval <= 0
       THEN Panic /\ UNCHANGED <<tickerPeriod, lastTickAt>>
       ELSE /\ pc' = [pc EXCEPT ![g] = "wait"]
            /\ tickerPeriod' = [tickerPeriod EXCEPT ![g] = heartbeatInterval]
            /\ lastTickAt' = [lastTickAt EXCEPT ![g] = 0]
            /\ UNCHANGED <<crashed, hbStage>>
    /\ UNCHANGED <<gateway, sessionId, resumeGateway, heartbeatInterval,
                   lastHeartbeatAcked, sequence, isResuming, connection,
                   messageChannel, chanClosed, errCh, ctxDone, hbSeq, mainMsg, readBuf,
                   listenConn, dcConn, ctgConn, connOpen, dialed, closeCalls,
                   dcCloseCalls, sent, frameBudget, inbound, framesRead, ticks,
                   dcCalls, runs, result, maxDispatched, maxHandled, hbFloor,
                   hbPending, zombieSeen, cancelInLoop, firstFrame, lastTaken,
                   onEventCalls, seqBefore, writing, acksHandled>>

\* a ticker whose last tick, or whose creation, was at time last and whose
\* period is d sends its next tick at last + d
NextTickAtOnce(last, d) == last

NextTick(last, d) == last + d

\* case <-ticker.C: c.sendHeartbeat()
HbTick(g) ==
    /\ pc[g] = "wait"
    /\ ticks < MaxTicks
    /\ ticks' = ticks + 1
    /\ lastTickAt' = [lastTickAt EXCEPT ![g] = NextTick(@, tickerPeriod[g])]
    /\ pc' = [pc EXCEPT ![g] = "tick"]
    /\ hbStage' = [hbStage EXCEPT ![g] = "load"]
    /\ UNCHANGED <<gateway, sessionId, resumeGateway, heartbeatInterval,
                   lastHeartbeatAcked, sequence, isResuming, connection,
                   messageChannel, chanClosed, errCh, ctxDone, hbSeq, mainMsg, readBuf,
                   listenConn, dcConn, ctgConn, connOpen, dialed, closeCalls,
                   dcCloseCalls, sent, frameBudget, inbound, framesRead, tickerPeriod,
                   dcCalls, runs, result, crashed, maxDispatched, maxHandled, hbFloor,
                   hbPending, zombieSeen, cancelInLoop, firstFrame, lastTaken,
                   onEventCalls, seqBefore, writing, acksHandled>>

\* case <-ctx.Done(): return
HbStop(g) ==
    /\ pc[g] = "wait"
    /\ ctxDone
    /\ pc' = [pc EXCEPT ![g] = "stopped"]
    /\ UNCHANGED <<gateway, sessionId, resumeGateway, heartbeatInterval,
                   lastHeartbeatAcked, sequence, isResuming, connection,
                   messageChannel, chanClosed, errCh, ctxDone, hbStage, hbSeq, mainMsg,
                   readBuf, listenConn, dcConn, ctgConn, connOpen, dialed, closeCalls,
                   dcCloseCalls, sent, frameBudget, inbound, framesRead, ticks,
                   tickerPeriod, lastTickAt, dcCalls, runs, result, crashed,
                   maxDispatched, maxHandled, hbFloor, hbPending, zombieSeen,
                   cancelInLoop, firstFrame, lastTaken, onEventCalls, seqBefore,
                   writing, acksHandled>>

(* ---------------------------------------------------------------------- *)
(* startListening: set-up and the reader goroutine                         *)
(* ---------------------------------------------------------------------- *)
\* conn := c.connection.Load(), the two channels, go func() {...}
startListening ==
    /\ pc.main = "listen"
    /\ IF connection = Nil
       THEN /\ Return("connection_not_open")
            /\ UNCHANGED <<listenConn, messageChannel, chanClosed, errCh>>
       ELSE /\ listenConn' = connection
            /\ messageChannel' = <<>>
            /\ chanClosed' = FALSE
            /\ errCh' = <<>>
            /\ pc' = [pc EXCEPT !.main = "select", !.reader = "read"]
            /\ UNCHANGED result
    /\ UNCHANGED <<gateway, sessionId, resumeGateway, heartbeatInterval,
                   lastHeartbeatAcked, sequence, isResuming, connection, ctxDone,
                   hbStage, hbSeq, mainMsg, readBuf, dcConn, ctgConn, connOpen, dialed,
                   closeCalls, dcCloseCalls, sent, frameBudget, inbound, framesRead,
                   ticks, tickerPeriod, lastTickAt, dcCalls, runs, crashed,
                   maxDispatched, maxHandled, hbFloor, hbPending, zombieSeen,
                   cancelInLoop, firstFrame, lastTaken, onEventCalls, seqBefore,
                   writing, acksHandled>>

\* conn.ReadMessage() in the reader: a frame, or an error, which is sent on
\* errCh before the deferred close(c.messageChannel)
ReaderRead ==
    /\ pc.reader = "read"
    /\ \/ /\ errCh' = Append(errCh, "read_error")
          /\ chanClosed' = TRUE
          /\ pc' = [pc EXCEPT !.reader = "done"]
          /\ UNCHANGED <<readBuf, framesRead>>
       \/ /\ listenConn \in connOpen
          /\ framesRead < frameBudget
          /\ \E f \in inbound : readBuf' = Received(f, framesRead + 1)
          /\ framesRead' = framesRead + 1
          /\ pc' = [pc EXCEPT !.reader = "send"]
          /\ UNCHANGED <<errCh, chanClosed>>
    /\ UNCHANGED <<gateway, sessionId, resumeGateway, heartbeatInterval,
                   lastHeartbeatAcked, sequence, isResuming, connection,
                   messageChannel, ctxDone, hbStage, hbSeq, mainMsg, listenConn,
                   dcConn, ctgConn, connOpen, dialed, closeCalls, dcCloseCalls, sent,
                   frameBudget, inbound, ticks, tickerPeriod, lastTickAt, dcCalls,
                   runs, result, crashed, maxDispatched, maxHandled, hbFloor,
                   hbPending, zombieSeen, cancelInLoop, firstFrame, lastTaken,
                   onEventCalls, seqBefore, writing, acksHandled>>

\* select { case c.messageChannel <- messageBody: ; case <-ctx.Done(): return }
ReaderSend ==
    /\ pc.reader = "send"
    /\ \/ /\ CanSend(messageChannel)
          /\ messageChannel' = Enqueue(messageChannel, readBuf)
          /\ pc' = [pc EXCEPT !.reader = "read"]
          /\ UNCHANGED chanClosed
       \/ /\ ctxDone
          /\ chanClosed' = TRUE
          /\ pc' = [pc EXCEPT !.reader = "done"]
          /\ UNCHANGED messageChannel
    /\ readBuf' = NoMessage
    /\ UNCHANGED <<gateway, sessionId, resumeGateway, heartbeatInterval,
                   lastHeartbeatAcked, sequence, isResuming, connection, errCh,
                   ctxDone, hbStage, hbSeq, mainMsg, listenConn, dcConn, ctgConn,
                   connOpen, dialed, closeCalls, dcCloseCalls, sent, frameBudget,
                   inbound, framesRead, ticks, tickerPeriod, lastTickAt, dcCalls, runs,
                   result, crashed, maxDispatched, maxHandled, hbFloor, hbPending,
                   zombieSeen, cancelInLoop, firstFrame, lastTaken, onEventCalls,
                   seqBefore, writing, acksHandled>>

(* ---------------------------------------------------------------------- *)
(* startListening: the coordinator loop                                    *)
(* ---------------------------------------------------------------------- *)
\* a cancellation case that returns ctx.Err() and leaves the connection open
SelectCancelWithoutClose ==
    /\ pc.main = "select"
    /\ ctxDone
    /\ Return("cancelled")
    /\ UNCHANGED <<gateway, sessionId, resumeGateway, heartbeatInterval,
                   lastHeartbeatAcked, sequence, isResuming, connection,
                   messageChannel, chanClosed, errCh, ctxDone, hbStage, hbSeq, mainMsg,
                   readBuf, listenConn, dcConn, ctgConn, connOpen, dialed, closeCalls,
                   dcCloseCalls, sent, frameBudget, inbound, framesRead, ticks,
                   tickerPeriod, lastTickAt, dcCalls, runs, crashed, maxDispatched,
                   maxHandled, hbFloor, hbPending, zombieSeen, cancelInLoop,
                   firstFrame, lastTaken, onEventCalls, seqBefore, writing,
                   acksHandled>>

\* case <-ctx.Done(): close the current connection and return ctx.Err()
SelectCancel ==
    /\ pc.main = "select"
    /\ ctxDone
    /\ IF connection # Nil
       THEN Close(connection)
       ELSE UNCHANGED <<connOpen, closeCalls>>
    /\ Return("cancelled")
    /\ UNCHANGED <<gateway, sessionId, resumeGateway, heartbeatInterval,
                   lastHeartbeatAcked, sequence, isResuming, connection,
                   messageChannel, chanClosed, errCh, ctxDone, hbStage, hbSeq, mainMsg,
                   readBuf, listenConn, dcConn, ctgConn, dialed, dcCloseCalls, sent,
                   frameBudget, inbound, framesRead, ticks, tickerPeriod, lastTickAt,
                   dcCalls, runs, crashed, maxDispatched, maxHandled, hbFloor,
                   hbPending, zombieSeen, cancelInLoop, firstFrame, lastTaken,
                   onEventCalls, seqBefore, writing, acksHandled>>

\* case err := <-errCh: return err
SelectErr ==
    /\ pc.main = "select"
    /\ errCh # <<>>
    /\ errCh' = Tail(errCh)
    /\ Return("read_failed")
    /\ UNCHANGED <<gateway, sessionId, resumeGateway, heartbeatInterval,
                   lastHeartbeatAcked, sequence, isResuming, connection,
                   messageChannel, chanClosed, ctxDone, hbStage, hbSeq, mainMsg,
                   readBuf, listenConn, dcConn, ctgConn, connOpen, dialed, closeCalls,
                   dcCloseCalls, sent, frameBudget, inbound, framesRead, ticks,
                   tickerPeriod, lastTickAt, dcCalls, runs, crashed, maxDispatched,
                   maxHandled, hbFloor, hbPending, zombieSeen, cancelInLoop,
                   firstFrame, lastTaken, onEventCalls, seqBefore, writing,
                   acksHandled>>

\* case messageBody, ok := <-c.messageChannel with !ok
SelectClosed ==
    /\ pc.main = "select"
    /\ messageChannel = <<>>
    /\ chanClosed
    /\ Return("channel_closed")
    /\ UNCHANGED <<gateway, sessionId, resumeGateway, heartbeatInterval,
                   lastHeartbeatAcked, sequence, isResuming, connection,
                   messageChannel, chanClosed, errCh, ctxDone, hbStage, hbSeq, mainMsg,
                   readBuf, listenConn, dcConn, ctgConn, connOpen, dialed, closeCalls,
                   dcCloseCalls, sent, frameBudget, inbound, framesRead, ticks,
                   tickerPeriod, lastTickAt, dcCalls, runs, crashed, maxDispatched,
                   maxHandled, hbFloor, hbPending, zombieSeen, cancelInLoop,
                   firstFrame, lastTaken, onEventCalls, seqBefore, writing,
                   acksHandled>>

\* case messageBody, ok := <-c.messageChannel with ok, and the json.Unmarshal
\* that opens handleMessage: a body that is no packet is logged and dropped
SelectMessage ==
    /\ pc.main = "select"
    /\ messageChannel # <<>>
    /\ messageChannel' = Tail(messageChannel)
    /\ lastTaken' = Head(messageChannel).n
    /\ seqBefore' = sequence
    /\ IF Head(messageChannel).wf
       THEN /\ mainMsg' = Head(messageChannel)
            /\ pc' = [pc EXCEPT !.main = "tswitch"]
       ELSE UNCHANGED <<pc, mainMsg>>
    /\ UNCHANGED <<gateway, sessionId, resumeGateway, heartbeatInterval,
                   lastHeartbeatAcked, sequence, isResuming, connection, chanClosed,
                   errCh, ctxDone, hbStage, hbSeq, readBuf, listenConn, dcConn,
                   ctgConn, connOpen, dialed, closeCalls, dcCloseCalls, sent,
                   frameBudget, inbound, framesRead, ticks, tickerPeriod, lastTickAt,
                   dcCalls, runs, result, crashed, maxDispatched, maxHandled, hbFloor,
                   hbPending, zombieSeen, cancelInLoop, firstFrame, onEventCalls,
                   writing, acksHandled>>

(* ---------------------------------------------------------------------- *)
(* handleMessage                                                           *)
(* ---------------------------------------------------------------------- *)
\* switch message.T
TSwitch ==
    /\ pc.main = "tswitch"
    /\ IF mainMsg.t = "READY"
       THEN LET data == UnmarshalReady(mainMsg.d) IN
            IF data.err
            THEN /\ Failed
                 /\ UNCHANGED <<sessionId, resumeGateway, lastHeartbeatAcked, hbStage,
                                hbPending, isResuming>>
            ELSE /\ sessionId' = data.SessionId
                 /\ resumeGateway' = data.ResumeUrl
                 /\ lastHeartbeatAcked' = TRUE
                 /\ hbPending' = FALSE
                 /\ pc' = [pc EXCEPT !.main = "ready_hb"]
                 /\ hbStage' = [hbStage EXCEPT !.main = "load"]
                 /\ UNCHANGED <<maxHandled, mainMsg, isResuming>>
       ELSE /\ isResuming' = IF mainMsg.t = "RESUMED" THEN FALSE ELSE isResuming
            /\ pc' = [pc EXCEPT !.main = "opswitch"]
            /\ UNCHANGED <<sessionId, resumeGateway, lastHeartbeatAcked, hbStage,
                           hbPending, maxHandled, mainMsg>>
    /\ UNCHANGED <<gateway, heartbeatInterval, sequence, connection, messageChannel,
                   chanClosed, errCh, ctxDone, hbSeq, readBuf, listenConn, dcConn,
                   ctgConn, connOpen, dialed, closeCalls, dcCloseCalls, sent,
                   frameBudget, inbound, framesRead, ticks, tickerPeriod, lastTickAt,
                   dcCalls, runs, result, crashed, maxDispatched, hbFloor, zombieSeen,
                   cancelInLoop, firstFrame, lastTaken, onEventCalls, seqBefore,
                   writing, acksHandled>>

\* handleInvalidSession: the error it returns; it changes no field
handleInvalidSession(data) ==
    LET canResume == UnmarshalBool(data) IN
    IF canResume.err THEN "could not unmarshal invalid session data"
    ELSE IF canResume.val THEN "received invalid session (resumable)"
    ELSE "received invalid session (not resumable)"

\* a handler that is called twice for a packet
onEventTwice(calls, n) == Append(Append(calls, n), n)

\* c.onEvent(message.D) for the packet at position n: the function is empty,
\* the call is all there is to record
onEvent(calls, n) == Append(calls, n)

\* case opcodes.Dispatch: c.sequence.Store(message.S)
DispatchStore(oldSeq, s) == s

\* if message.S > 0 { compare-and-swap loop }: sequence becomes the larger one
CasMax(oldSeq, s) == IF s > 0 /\ s > oldSeq THEN s ELSE oldSeq

\* a switch whose default case runs the code of case opcodes.Heartbeat
OpCaseDefaultHeartbeat(op) ==
    CASE op = HeartbeatACK -> "ack"
      [] op = Heartbeat -> "heartbeat"
      [] op = Reconnect -> "reconnect"
      [] op = Dispatch -> "dispatch"
      [] op = InvalidSession -> "invalid"
      [] OTHER -> "heartbeat"

\* the case of switch message.Op that runs for op
OpCase(op) ==
    CASE op = HeartbeatACK -> "ack"
      [] op = Heartbeat -> "heartbeat"
      [] op = Reconnect -> "reconnect"
      [] op = Dispatch -> "dispatch"
      [] op = InvalidSession -> "invalid"
      [] OTHER -> "default"

\* switch message.Op
OpSwitch ==
    /\ pc.main = "opswitch"
    /\ CASE OpCase(mainMsg.op) = "ack" ->
              /\ lastHeartbeatAcked' = TRUE
              /\ hbPending' = FALSE
              /\ pc' = [pc EXCEPT !.main = "sequpd"]
              /\ UNCHANGED onEventCalls
              /\ UNCHANGED <<sequence, hbStage, maxDispatched, maxHandled, mainMsg>>
         [] OpCase(mainMsg.op) = "heartbeat" ->
              /\ pc' = [pc EXCEPT !.main = "op_hb"]
              /\ hbStage' = [hbStage EXCEPT !.main = "load"]
              /\ UNCHANGED onEventCalls
              /\ UNCHANGED <<sequence, lastHeartbeatAcked, maxDispatched, maxHandled,
                             hbPending, mainMsg>>
         [] OpCase(mainMsg.op) = "reconnect" ->
              /\ Failed
              /\ UNCHANGED onEventCalls
              /\ UNCHANGED <<sequence, lastHeartbeatAcked, hbStage, maxDispatched,
                             hbPending>>
         [] OpCase(mainMsg.op) = "dispatch" ->
              /\ sequence' = DispatchStore(sequence, mainMsg.s)
              /\ onEventCalls' = onEvent(onEventCalls, mainMsg.n)
              /\ maxDispatched' = Max(maxDispatched, Carried(mainMsg))
              /\ pc' = [pc EXCEPT !.main = "sequpd"]
              /\ UNCHANGED <<lastHeartbeatAcked, hbStage, maxHandled, hbPending, mainMsg>>
         [] OpCase(mainMsg.op) = "invalid" ->
              /\ handleInvalidSession(mainMsg.d) # ""
              /\ Failed
              /\ UNCHANGED onEventCalls
              /\ UNCHANGED <<sequence, lastHeartbeatAcked, hbStage, maxDispatched,
                             hbPending>>
         [] OTHER ->
              /\ pc' = [pc EXCEPT !.main = "sequpd"]
              /\ UNCHANGED onEventCalls
              /\ UNCHANGED <<sequence, lastHeartbeatAcked, hbStage, maxDispatched,
                             maxHandled, hbPending, mainMsg>>
    /\ UNCHANGED <<gateway, sessionId, resumeGateway, heartbeatInterval, isResuming,
                   connection, messageChannel, chanClosed, errCh, ctxDone, hbSeq,
                   readBuf, listenConn, dcConn, ctgConn, connOpen, dialed, closeCalls,
                   dcCloseCalls, sent, frameBudget, inbound, framesRead, ticks,
                   tickerPeriod, lastTickAt, dcCalls, runs, result, crashed, hbFloor,
                   zombieSeen, cancelInLoop, firstFrame, lastTaken, seqBefore, writing,
                   acksHandled>>

\* the sequence update that ends handleMessage
SeqUpdate ==
    /\ pc.main = "sequpd"
    /\ sequence' = CasMax(sequence, mainMsg.s)
    /\ acksHandled' = IF mainMsg.op = GatewayHeartbeatACK
                      THEN acksHandled + 1 ELSE acksHandled
    /\ Handled
    /\ UNCHANGED <<gateway, sessionId, resumeGateway, heartbeatInterval,
                   lastHeartbeatAcked, isResuming, connection, messageChannel,
                   chanClosed, errCh, ctxDone, hbStage, hbSeq, readBuf, listenConn,
                   dcConn, ctgConn, connOpen, dialed, closeCalls, dcCloseCalls, sent,
                   frameBudget, inbound, framesRead, ticks, tickerPeriod, lastTickAt,
                   dcCalls, runs, result, crashed, maxDispatched, hbFloor, hbPending,
                   zombieSeen, cancelInLoop, firstFrame, lastTaken, onEventCalls,
                   seqBefore, writing>>

(* ---------------------------------------------------------------------- *)
(* The cancellation, and Disconnect called by an embedding program         *)
(* ---------------------------------------------------------------------- *)
\* the positions of ConnectToGateway inside the for loop of startListening
LoopPcs == {"select", "tswitch", "ready_hb", "opswitch", "op_hb", "sequpd"}

\* cancel() of the context passed to ConnectToGateway
Cancel ==
    /\ ~crashed
    /\ ~ctxDone
    /\ ctxDone' = TRUE
    /\ cancelInLoop' = (pc.main \in LoopPcs)
    /\ UNCHANGED <<gateway, sessionId, resumeGateway, heartbeatInterval,
                   lastHeartbeatAcked, sequence, isResuming, connection,
                   messageChannel, chanClosed, errCh, pc, hbStage, hbSeq, mainMsg,
                   readBuf, listenConn, dcConn, ctgConn, connOpen, dialed, closeCalls,
                   dcCloseCalls, sent, frameBudget, inbound, framesRead, ticks,
                   tickerPeriod, lastTickAt, dcCalls, runs, result, crashed,
                   maxDispatched, maxHandled, hbFloor, hbPending, zombieSeen,
                   firstFrame, lastTaken, onEventCalls, seqBefore, writing,
                   acksHandled>>

\* conn := c.connection.Load(); if conn == nil { return nil }
DcCall ==
    /\ pc.dc = "idle"
    /\ dcCalls < MaxDisconnects
    /\ dcCalls' = dcCalls + 1
    /\ IF connection = Nil
       THEN UNCHANGED <<pc, dcConn>>
       ELSE /\ dcConn' = connection
            /\ pc' = [pc EXCEPT !.dc = "write"]
    /\ UNCHANGED <<gateway, sessionId, resumeGateway, heartbeatInterval,
                   lastHeartbeatAcked, sequence, isResuming, connection,
                   messageChannel, chanClosed, errCh, ctxDone, hbStage, hbSeq, mainMsg,
                   readBuf, listenConn, ctgConn, connOpen, dialed, closeCalls,
                   dcCloseCalls, sent, frameBudget, inbound, framesRead, ticks,
                   tickerPeriod, lastTickAt, runs, result, crashed, maxDispatched,
                   maxHandled, hbFloor, hbPending, zombieSeen, cancelInLoop,
                   firstFrame, lastTaken, onEventCalls, seqBefore, writing,
                   acksHandled>>

\* the call of conn.WriteMessage(websocket.CloseMessage, ...) begins
DcEnter ==
    /\ pc.dc = "write"
    /\ pc' = [pc EXCEPT !.dc = "writing"]
    /\ writing' = [writing EXCEPT !.dc = dcConn]
    /\ UNCHANGED <<gateway, sessionId, resumeGateway, heartbeatInterval,
                   lastHeartbeatAcked, sequence, isResuming, connection,
                   messageChannel, chanClosed, errCh, ctxDone, hbStage, hbSeq, mainMsg,
                   readBuf, listenConn, dcConn, ctgConn, connOpen, dialed, closeCalls,
                   dcCloseCalls, sent, frameBudget, inbound, framesRead, ticks,
                   tickerPeriod, lastTickAt, dcCalls, runs, result, crashed,
                   maxDispatched, maxHandled, hbFloor, hbPending, zombieSeen,
                   cancelInLoop, firstFrame, lastTaken, onEventCalls, seqBefore,
                   acksHandled>>

\* conn.WriteMessage(websocket.CloseMessage, ...) returns: a failure is only
\* logged
DcWrite ==
    /\ pc.dc = "writing"
    /\ writing' = [writing EXCEPT !.dc = Nil]
    /\ \/ UNCHANGED sent
       \/ /\ dcConn \in connOpen
          /\ sent' = Append(sent, CloseFrame(dcConn, "dc"))
    /\ pc' = [pc EXCEPT !.dc = "close"]
    /\ UNCHANGED <<gateway, sessionId, resumeGateway, heartbeatInterval,
                   lastHeartbeatAcked, sequence, isResuming, connection,
                   messageChannel, chanClosed, errCh, ctxDone, hbStage, hbSeq, mainMsg,
                   readBuf, listenConn, dcConn, ctgConn, connOpen, dialed, closeCalls,
                   dcCloseCalls, frameBudget, inbound, framesRead, ticks, tickerPeriod,
                   lastTickAt, dcCalls, runs, result, crashed, maxDispatched,
                   maxHandled, hbFloor, hbPending, zombieSeen, cancelInLoop,
                   firstFrame, lastTaken, onEventCalls, seqBefore, acksHandled>>

\* if err := conn.Close(); err != nil { return err }
DcClose ==
    /\ pc.dc = "close"
    /\ Close(dcConn)
    /\ dcCloseCalls' = [dcCloseCalls EXCEPT ![dcConn] = @ + 1]
    /\ \E err \in BOOLEAN :
          IF err
          THEN pc' = [pc EXCEPT !.dc = "idle"] /\ dcConn' = Nil
          ELSE pc' = [pc EXCEPT !.dc = "store"] /\ UNCHANGED dcConn
    /\ UNCHANGED <<gateway, sessionId, resumeGateway, heartbeatInterval,
                   lastHeartbeatAcked, sequence, isResuming, connection,
                   messageChannel, chanClosed, errCh, ctxDone, hbStage, hbSeq, mainMsg,
                   readBuf, listenConn, ctgConn, dialed, sent, frameBudget, inbound,
                   framesRead, ticks, tickerPeriod, lastTickAt, dcCalls, runs, result,
                   crashed, maxDispatched, maxHandled, hbFloor, hbPending, zombieSeen,
                   cancelInLoop, firstFrame, lastTaken, onEventCalls, seqBefore,
                   writing, acksHandled>>

\* c.connection.Store(nil); return nil
DcStore ==
    /\ pc.dc = "store"
    /\ connection' = Nil
    /\ dcConn' = Nil
    /\ pc' = [pc EXCEPT !.dc = "idle"]
    /\ UNCHANGED <<gateway, sessionId, resumeGateway, heartbeatInterval,
                   lastHeartbeatAcked, sequence, isResuming, messageChannel,
                   chanClosed, errCh, ctxDone, hbStage, hbSeq, mainMsg, readBuf,
                   listenConn, ctgConn, connOpen, dialed, closeCalls, dcCloseCalls,
                   sent, frameBudget, inbound, framesRead, ticks, tickerPeriod,
                   lastTickAt, dcCalls, runs, result, crashed, maxDispatched,
                   maxHandled, hbFloor, hbPending, zombieSeen, cancelInLoop,
                   firstFrame, lastTaken, onEventCalls, seqBefore, writing,
                   acksHandled>>

Disconnect == DcCall \/ DcEnter \/ DcWrite \/ DcClose \/ DcStore

(* ---------------------------------------------------------------------- *)
(* Specifications                                                          *)
(* ---------------------------------------------------------------------- *)
\* a step of one of the goroutines of the client
Goroutines ==
    \/ CtgDial
    \/ CtgHello
    \/ identify
    \/ \E p \in {"main"} \cup Tickers : sendHeartbeat(p)
    \/ \E g \in Tickers : HbStart(g)
    \/ \E g \in Tickers : HbTick(g)
    \/ \E g \in Tickers : HbStop(g)
    \/ startListening
    \/ ReaderRead
    \/ ReaderSend
    \/ SelectCancel
    \/ SelectErr
    \/ SelectClosed
    \/ SelectMessage
    \/ TSwitch
    \/ OpSwitch
    \/ SeqUpdate

Next == Goroutines \/ Cancel

Spec == Init /\ [][Next]_vars

\* a goroutine that can take a step eventually takes one; nothing obliges the
\* embedding program to cancel the context
FairSpec == Spec /\ WF_vars(Goroutines)

\* the steps the reader goroutine cannot be kept from taking: its select, which
\* has a ready case or blocks, and a conn.ReadMessage on a closed connection,
\* which returns an error; on an open connection conn.ReadMessage blocks for as
\* long as the server sends nothing
ReaderUnblocked == ReaderSend \/ (ReaderRead /\ listenConn \notin connOpen)

\* the client with a reader goroutine that runs whenever it is not blocked
SpecReader == InitApi /\ [][Next]_vars /\ WF_vars(ReaderUnblocked)

\* the embedding program calls ConnectToGateway again, on the same client and
\* with the same context, after a call that returned an error: the goroutine
\* the earlier call started with go c.startHeartbeat(ctx) is still there
CtgAgain ==
    /\ pc.main = "returned"
    /\ ~ctxDone
    /\ runs < MaxRuns
    /\ runs' = runs + 1
    /\ result' = "running"
    /\ pc' = [pc EXCEPT !.main = "start", !.reader = "off",
                        !.old = pc.hb, !.hb = "off"]
    /\ hbStage' = [hbStage EXCEPT !.old = hbStage.hb, !.hb = "none"]
    /\ hbSeq' = [hbSeq EXCEPT !.old = hbSeq.hb, !.hb = 0]
    /\ hbFloor' = [hbFloor EXCEPT !.old = hbFloor.hb, !.hb = InitialSequence]
    /\ tickerPeriod' = [tickerPeriod EXCEPT !.old = tickerPeriod.hb, !.hb = 0]
    /\ lastTickAt' = [lastTickAt EXCEPT !.old = lastTickAt.hb, !.hb = 0]
    /\ writing' = [writing EXCEPT !.old = writing.hb, !.hb = Nil]
    /\ UNCHANGED <<gateway, sessionId, resumeGateway, heartbeatInterval,
                   lastHeartbeatAcked, sequence, isResuming, connection,
                   messageChannel, chanClosed, errCh, ctxDone, mainMsg, readBuf,
                   listenConn, dcConn, ctgConn, connOpen, dialed, closeCalls,
                   dcCloseCalls, sent, frameBudget, inbound, framesRead, ticks,
                   dcCalls, crashed, maxDispatched, maxHandled, hbPending, zombieSeen,
                   cancelInLoop, firstFrame, lastTaken, onEventCalls, seqBefore,
                   acksHandled>>

NextAgain == Next \/ CtgAgain

\* the client in a program that calls ConnectToGateway again after an error
SpecAgain == InitApi /\ [][NextAgain]_vars

\* the client against a server that delivers a burst of events
SpecBurst == InitBurst /\ [][Next]_vars

\* the client against a server that stamps a sequence number on every frame
SpecSeq == InitSeq /\ [][Next]_vars

NextApi == Next \/ Disconnect

SpecApi == InitApi /\ [][NextApi]_vars

(* ---------------------------------------------------------------------- *)
(* The first revision of the client (client.go lines 392-738): the fields  *)
(* are plain, the heartbeat is a time.AfterFunc timer that re-arms itself, *)
(* messageChannel is unbuffered, and ConnectToGateway takes no context.    *)
(* A step is one statement on the shared fields, so every outcome of the   *)
(* unsynchronised accesses is an interleaving of the steps.                *)
(* ---------------------------------------------------------------------- *)
\* &Client{token: token, gateway: response.Url, sequence: -1}: the ack flag
\* starts at its zero value
InitV1 == NewBot(FALSE, MaxFramesV1, ServerFrames)

\* ConnectToGateway returns to main, which returns: the process ends
ReturnV1(reason) ==
    /\ pc' = [main |-> "returned", reader |-> "off", hb |-> "off", old |-> "off",
              dc |-> "idle"]
    /\ hbStage' = [g \in DOMAIN hbStage |-> "none"]
    /\ result' = reason

\* os.Exit(1)
ExitV1 == ReturnV1("exited")

\* the gateway check and websocket.DefaultDialer.Dial
CtgDialV1 ==
    /\ pc.main = "start"
    /\ \/ /\ gateway = ""
          /\ ReturnV1("gateway_unset")
          /\ UNCHANGED <<connection, connOpen, dialed>>
       \/ /\ gateway # ""
          /\ ReturnV1("dial_failed")
          /\ UNCHANGED <<connection, connOpen, dialed>>
       \/ /\ gateway # ""
          /\ \E h \in Handles :
                /\ Dial(h)
                /\ connection' = h
          /\ pc' = [pc EXCEPT !.main = "hello"]
          /\ UNCHANGED <<result, hbStage>>
    /\ UNCHANGED <<gateway, sessionId, resumeGateway, heartbeatInterval,
                   lastHeartbeatAcked, sequence, isResuming, messageChannel,
                   chanClosed, errCh, ctxDone, hbSeq, mainMsg, readBuf, listenConn,
                   dcConn, ctgConn, closeCalls, dcCloseCalls, sent, frameBudget,
                   inbound, framesRead, ticks, tickerPeriod, lastTickAt, dcCalls, runs,
                   crashed, maxDispatched, maxHandled, hbFloor, hbPending, zombieSeen,
                   cancelInLoop, firstFrame, lastTaken, onEventCalls, seqBefore,
                   writing, acksHandled>>

\* setHeartbeatInterval(timeToWait): time.AfterFunc arms the timer; with -1 it
\* stops c.heartbeatTimer, which is nil before the first call
setHeartbeatIntervalV1(timeToWait) ==
    IF timeToWait = -1
    THEN ReturnV1("nil_timer_panic")
    ELSE /\ pc' = [pc EXCEPT !.main = "identify", !.hb = "wait"]
         /\ UNCHANGED <<result, hbStage>>

\* c.connection.ReadMessage() of the first frame, its decoding, the Hello
\* check and setHeartbeatInterval
CtgHelloV1 ==
    /\ pc.main = "hello"
    /\ \/ /\ ReturnV1("hello_read_failed")
          /\ UNCHANGED <<heartbeatInterval, firstFrame>>
       \/ /\ connection \in connOpen
          /\ \E f \in FirstFrames :
                /\ firstFrame' = f
                /\ IF ~f.wf
                   THEN ReturnV1("hello_undecodable") /\ UNCHANGED heartbeatInterval
                   ELSE IF f.op # Hello
                   THEN ReturnV1("hello_wrong_op") /\ UNCHANGED heartbeatInterval
                   ELSE /\ heartbeatInterval' = f.interval
                        /\ setHeartbeatIntervalV1(f.interval)
    /\ UNCHANGED <<gateway, sessionId, resumeGateway, lastHeartbeatAcked, sequence,
                   isResuming, connection, messageChannel, chanClosed, errCh, ctxDone,
                   hbSeq, mainMsg, readBuf, listenConn, dcConn, ctgConn, connOpen,
                   dialed, closeCalls, dcCloseCalls, sent, frameBudget, inbound,
                   framesRead, ticks, tickerPeriod, lastTickAt, dcCalls, runs, crashed,
                   maxDispatched, maxHandled, hbFloor, hbPending, zombieSeen,
                   cancelInLoop, lastTaken, onEventCalls, seqBefore, writing,
                   acksHandled>>

\* identify(): the Identify frame, then c.startListening()
identifyV1 ==
    /\ pc.main = "identify"
    /\ \/ /\ ReturnV1("identify_failed")
          /\ UNCHANGED sent
       \/ /\ connection # Nil
          /\ connection \in connOpen
          /\ sent' = Append(sent, TextFrame(Identify, 0, "", connection, "main"))
          /\ pc' = [pc EXCEPT !.main = "listen"]
          /\ UNCHANGED <<result, hbStage>>
    /\ UNCHANGED <<gateway, sessionId, resumeGateway, heartbeatInterval,
                   lastHeartbeatAcked, sequence, isResuming, connection,
                   messageChannel, chanClosed, errCh, ctxDone, hbSeq, mainMsg, readBuf,
                   listenConn, dcConn, ctgConn, connOpen, dialed, closeCalls,
                   dcCloseCalls, frameBudget, inbound, framesRead, ticks, tickerPeriod,
                   lastTickAt, dcCalls, runs, crashed, maxDispatched, maxHandled,
                   hbFloor, hbPending, zombieSeen, cancelInLoop, firstFrame, lastTaken,
                   onEventCalls, seqBefore, writing, acksHandled>>

\* c.messageChannel = make(chan []byte); go func() {...}
startListeningV1 ==
    /\ pc.main = "listen"
    /\ IF connection = Nil
       THEN /\ ReturnV1("connection_not_open")
            /\ UNCHANGED <<messageChannel, chanClosed>>
       ELSE /\ messageChannel' = <<>>
            /\ chanClosed' = FALSE
            /\ pc' = [pc EXCEPT !.main = "range", !.reader = "read"]
            /\ UNCHANGED <<result, hbStage>>
    /\ UNCHANGED <<gateway, sessionId, resumeGateway, heartbeatInterval,
                   lastHeartbeatAcked, sequence, isResuming, connection, errCh,
                   ctxDone, hbSeq, mainMsg, readBuf, listenConn, dcConn, ctgConn,
                   connOpen, dialed, closeCalls, dcCloseCalls, sent, frameBudget,
                   inbound, framesRead, ticks, tickerPeriod, lastTickAt, dcCalls, runs,
                   crashed, maxDispatched, maxHandled, hbFloor, hbPending, zombieSeen,
                   cancelInLoop, firstFrame, lastTaken, onEventCalls, seqBefore,
                   writing, acksHandled>>

\* c.connection.ReadMessage() in the reader, on the connection the field holds
\* at the call: a frame, or an error and close(c.messageChannel)
ReaderReadV1 ==
    /\ pc.reader = "read"
    /\ \/ /\ chanClosed' = TRUE
          /\ pc' = [pc EXCEPT !.reader = "done"]
          /\ UNCHANGED <<readBuf, framesRead>>
       \/ /\ connection \in connOpen
          /\ framesRead < frameBudget
          /\ \E f \in inbound : readBuf' = Received(f, framesRead + 1)
          /\ framesRead' = framesRead + 1
          /\ pc' = [pc EXCEPT !.reader = "send"]
          /\ UNCHANGED chanClosed
    /\ UNCHANGED <<gateway, sessionId, resumeGateway, heartbeatInterval,
                   lastHeartbeatAcked, sequence, isResuming, connection,
                   messageChannel, errCh, ctxDone, hbStage, hbSeq, mainMsg, listenConn,
                   dcConn, ctgConn, connOpen, dialed, closeCalls, dcCloseCalls, sent,
                   frameBudget, inbound, ticks, tickerPeriod, lastTickAt, dcCalls,
                   runs, result, crashed, maxDispatched, maxHandled, hbFloor,
                   hbPending, zombieSeen, cancelInLoop, firstFrame, lastTaken,
                   onEventCalls, seqBefore, writing, acksHandled>>

\* for messageBody := range c.messageChannel: the reader hands its frame over
\* (c.messageChannel <- messageBody), or the channel is closed and the loop
\* ends; a body that is no packet makes startListening return
RangeV1 ==
    /\ pc.main = "range"
    /\ \/ /\ pc.reader = "send"
          /\ readBuf' = NoMessage
          /\ IF readBuf.wf
             THEN /\ mainMsg' = readBuf
                  /\ pc' = [pc EXCEPT !.main = "tswitch", !.reader = "read"]
                  /\ UNCHANGED <<result, hbStage>>
             ELSE /\ ReturnV1("packet_undecodable")
                  /\ UNCHANGED mainMsg
       \/ /\ chanClosed
          /\ ReturnV1("channel_closed")
          /\ UNCHANGED <<readBuf, mainMsg>>
    /\ UNCHANGED <<gateway, sessionId, resumeGateway, heartbeatInterval,
                   lastHeartbeatAcked, sequence, isResuming, connection,
                   messageChannel, chanClosed, errCh, ctxDone, hbSeq, listenConn,
                   dcConn, ctgConn, connOpen, dialed, closeCalls, dcCloseCalls, sent,
                   frameBudget, inbound, framesRead, ticks, tickerPeriod, lastTickAt,
                   dcCalls, runs, crashed, maxDispatched, maxHandled, hbFloor,
                   hbPending, zombieSeen, cancelInLoop, firstFrame, lastTaken,
                   onEventCalls, seqBefore, writing, acksHandled>>

\* sendHeartbeat returns: the timer callback re-arms the timer, the READY case
\* goes on to the switch on message.Op, the Heartbeat case to the sequence
\* update
ShReturnV1(p) ==
    /\ hbStage' = [hbStage EXCEPT ![p] = "none"]
    /\ hbSeq' = [hbSeq EXCEPT ![p] = 0]
    /\ hbFloor' = [hbFloor EXCEPT ![p] = InitialSequence]
    /\ IF p = "hb"
       THEN pc' = [pc EXCEPT !.hb = "wait"]
       ELSE IF pc.main = "ready_hb"
       THEN pc' = [pc EXCEPT !.main = "opswitch"]
       ELSE pc' = [pc EXCEPT !.main = "sequpd"]

\* if !c.lastHeartbeatAcked { return }
ShLoadV1(p) ==
    /\ hbStage[p] = "load"
    /\ IF lastHeartbeatAcked
       THEN /\ hbStage' = [hbStage EXCEPT ![p] = "store"]
            /\ UNCHANGED <<pc, hbSeq, hbFloor, zombieSeen>>
       ELSE /\ ShReturnV1(p)
            /\ zombieSeen' = (zombieSeen \/ (p = "hb" /\ hbPending))
    /\ UNCHANGED <<gateway, sessionId, resumeGateway, heartbeatInterval,
                   lastHeartbeatAcked, sequence, isResuming, connection,
                   messageChannel, chanClosed, errCh, ctxDone, mainMsg, readBuf,
                   listenConn, dcConn, ctgConn, connOpen, dialed, closeCalls,
                   dcCloseCalls, sent, frameBudget, inbound, framesRead, ticks,
                   tickerPeriod, lastTickAt, dcCalls, runs, result, crashed,
                   maxDispatched, maxHandled, hbPending, cancelInLoop, firstFrame,
                   lastTaken, onEventCalls, seqBefore, writing, acksHandled>>

\* c.lastHeartbeatAcked = false
ShStoreV1(p) ==
    /\ hbStage[p] = "store"
    /\ lastHeartbeatAcked' = FALSE
    /\ hbStage' = [hbStage EXCEPT ![p] = "seq"]
    /\ UNCHANGED <<gateway, sessionId, resumeGateway, heartbeatInterval, sequence,
                   isResuming, connection, messageChannel, chanClosed, errCh, ctxDone,
                   pc, hbSeq, mainMsg, readBuf, listenConn, dcConn, ctgConn, connOpen,
                   dialed, closeCalls, dcCloseCalls, sent, frameBudget, inbound,
                   framesRead, ticks, tickerPeriod, lastTickAt, dcCalls, runs, result,
                   crashed, maxDispatched, maxHandled, hbFloor, hbPending, zombieSeen,
                   cancelInLoop, firstFrame, lastTaken, onEventCalls, seqBefore,
                   writing, acksHandled>>

\* HeartbeatMessage{Op: opcodes.Heartbeat, D: c.sequence}
ShLoadSeqV1(p) ==
    /\ hbStage[p] = "seq"
    /\ hbSeq' = [hbSeq EXCEPT ![p] = sequence]
    /\ hbFloor' = [hbFloor EXCEPT ![p] = maxHandled]
    /\ hbStage' = [hbStage EXCEPT ![p] = "write"]
    /\ UNCHANGED <<gateway, sessionId, resumeGateway, heartbeatInterval,
                   lastHeartbeatAcked, sequence, isResuming, connection,
                   messageChannel, chanClosed, errCh, ctxDone, pc, mainMsg, readBuf,
                   listenConn, dcConn, ctgConn, connOpen, dialed, closeCalls,
                   dcCloseCalls, sent, frameBudget, inbound, framesRead, ticks,
                   tickerPeriod, lastTickAt, dcCalls, runs, result, crashed,
                   maxDispatched, maxHandled, hbPending, zombieSeen, cancelInLoop,
                   firstFrame, lastTaken, onEventCalls, seqBefore, writing,
                   acksHandled>>

\* c.connection.WriteMessage(websocket.TextMessage, payload), which may fail
ShWriteV1(p) ==
    /\ hbStage[p] = "write"
    /\ \/ UNCHANGED <<sent, hbPending>>
       \/ /\ connection \in connOpen
          /\ sent' = Append(sent, TextFrame(Heartbeat, hbSeq[p], "", connection, p))
          /\ hbPending' = TRUE
    /\ ShReturnV1(p)
    /\ UNCHANGED <<gateway, sessionId, resumeGateway, heartbeatInterval,
                   lastHeartbeatAcked, sequence, isResuming, connection,
                   messageChannel, chanClosed, errCh, ctxDone, mainMsg, readBuf,
                   listenConn, dcConn, ctgConn, connOpen, dialed, closeCalls,
                   dcCloseCalls, frameBudget, inbound, framesRead, ticks, tickerPeriod,
                   lastTickAt, dcCalls, runs, result, crashed, maxDispatched,
                   maxHandled, zombieSeen, cancelInLoop, firstFrame, lastTaken,
                   onEventCalls, seqBefore, writing, acksHandled>>

sendHeartbeatV1(p) == ShLoadV1(p) \/ ShStoreV1(p) \/ ShLoadSeqV1(p) \/ ShWriteV1(p)

\* the timer of setHeartbeatInterval fires: c.sendHeartbeat(), and then
\* c.setHeartbeatInterval(timeToWait) arms it again
HbTickV1 ==
    /\ pc.hb = "wait"
    /\ ticks < MaxTicks
    /\ ticks' = ticks + 1
    /\ pc' = [pc EXCEPT !.hb = "tick"]
    /\ hbStage' = [hbStage EXCEPT !.hb = "load"]
    /\ UNCHANGED <<gateway, sessionId, resumeGateway, heartbeatInterval,
                   lastHeartbeatAcked, sequence, isResuming, connection,
                   messageChannel, chanClosed, errCh, ctxDone, hbSeq, mainMsg, readBuf,
                   listenConn, dcConn, ctgConn, connOpen, dialed, closeCalls,
                   dcCloseCalls, sent, frameBudget, inbound, framesRead, tickerPeriod,
                   lastTickAt, dcCalls, runs, result, crashed, maxDispatched,
                   maxHandled, hbFloor, hbPending, zombieSeen, cancelInLoop,
                   firstFrame, lastTaken, onEventCalls, seqBefore, writing,
                   acksHandled>>

\* switch message.T
TSwitchV1 ==
    /\ pc.main = "tswitch"
    /\ IF mainMsg.t = "READY"
       THEN LET data == UnmarshalReady(mainMsg.d) IN
            IF data.err
            THEN /\ ReturnV1("ready_undecodable")
                 /\ mainMsg' = NoMessage
                 /\ UNCHANGED <<sessionId, resumeGateway, lastHeartbeatAcked,
                                hbPending, isResuming>>
            ELSE /\ sessionId' = data.SessionId
                 /\ resumeGateway' = data.ResumeUrl
                 /\ lastHeartbeatAcked' = TRUE
                 /\ hbPending' = FALSE
                 /\ pc' = [pc EXCEPT !.main = "ready_hb"]
                 /\ hbStage' = [hbStage EXCEPT !.main = "load"]
                 /\ UNCHANGED <<mainMsg, isResuming, result>>
       ELSE /\ isResuming' = IF mainMsg.t = "RESUMED" THEN FALSE ELSE isResuming
            /\ pc' = [pc EXCEPT !.main = "opswitch"]
            /\ UNCHANGED <<sessionId, resumeGateway, lastHeartbeatAcked, hbStage,
                           hbPending, mainMsg, result>>
    /\ UNCHANGED <<gateway, heartbeatInterval, sequence, connection, messageChannel,
                   chanClosed, errCh, ctxDone, hbSeq, readBuf, listenConn, dcConn,
                   ctgConn, connOpen, dialed, closeCalls, dcCloseCalls, sent,
                   frameBudget, inbound, framesRead, ticks, tickerPeriod, lastTickAt,
                   dcCalls, runs, crashed, maxDispatched, maxHandled, hbFloor,
                   zombieSeen, cancelInLoop, firstFrame, lastTaken, onEventCalls,
                   seqBefore, writing, acksHandled>>

\* handleInvalidSession: where the coordinator goes on
handleInvalidSessionV1(data) ==
    LET canResume == UnmarshalBool(data) IN
    IF canResume.err THEN "exit"
    ELSE IF canResume.val THEN "resume"
    ELSE "newbot"

\* switch message.Op
OpSwitchV1 ==
    /\ pc.main = "opswitch"
    /\ CASE mainMsg.op = HeartbeatACK ->
              /\ lastHeartbeatAcked' = TRUE
              /\ hbPending' = FALSE
              /\ pc' = [pc EXCEPT !.main = "sequpd"]
              /\ UNCHANGED onEventCalls
              /\ UNCHANGED <<sequence, hbStage, maxDispatched, result>>
         [] mainMsg.op = Heartbeat ->
              /\ pc' = [pc EXCEPT !.main = "op_hb"]
              /\ hbStage' = [hbStage EXCEPT !.main = "load"]
              /\ UNCHANGED onEventCalls
              /\ UNCHANGED <<sequence, lastHeartbeatAcked, maxDispatched, hbPending,
                             result>>
         [] mainMsg.op = Reconnect ->
              /\ pc' = [pc EXCEPT !.main = "resume"]
              /\ UNCHANGED onEventCalls
              /\ UNCHANGED <<sequence, lastHeartbeatAcked, hbStage, maxDispatched,
                             hbPending, result>>
         [] mainMsg.op = Dispatch ->
              /\ sequence' = DispatchStore(sequence, mainMsg.s)
              /\ onEventCalls' = onEvent(onEventCalls, mainMsg.n)
              /\ maxDispatched' = Max(maxDispatched, Carried(mainMsg))
              /\ pc' = [pc EXCEPT !.main = "sequpd"]
              /\ UNCHANGED <<lastHeartbeatAcked, hbStage, hbPending, result>>
         [] mainMsg.op = InvalidSession ->
              /\ IF handleInvalidSessionV1(mainMsg.d) = "exit"
                 THEN ExitV1
                 ELSE /\ pc' = [pc EXCEPT !.main = handleInvalidSessionV1(mainMsg.d)]
                      /\ UNCHANGED <<hbStage, result>>
              /\ UNCHANGED onEventCalls
              /\ UNCHANGED <<sequence, lastHeartbeatAcked, maxDispatched, hbPending>>
         [] OTHER ->
              /\ pc' = [pc EXCEPT !.main = "sequpd"]
              /\ UNCHANGED onEventCalls
              /\ UNCHANGED <<sequence, lastHeartbeatAcked, hbStage, maxDispatched,
                             hbPending, result>>
    /\ UNCHANGED <<gateway, sessionId, resumeGateway, heartbeatInterval, isResuming,
                   connection, messageChannel, chanClosed, errCh, ctxDone, hbSeq,
                   mainMsg, readBuf, listenConn, dcConn, ctgConn, connOpen, dialed,
                   closeCalls, dcCloseCalls, sent, frameBudget, inbound, framesRead,
                   ticks, tickerPeriod, lastTickAt, dcCalls, runs, crashed, maxHandled,
                   hbFloor, zombieSeen, cancelInLoop, firstFrame, lastTaken, seqBefore,
                   writing, acksHandled>>

\* resumeOldConnection: the check of c.resumeGateway, the Dial of the resume
\* gateway, and the Resume frame with c.sessionId and c.sequence; the old
\* connection is left open
resumeOldConnection ==
    /\ pc.main = "resume"
    /\ pc' = [pc EXCEPT !.main = "sequpd"]
    /\ IF resumeGateway = ""
       THEN UNCHANGED <<isResuming, connection, connOpen, dialed, sent>>
       ELSE /\ isResuming' = TRUE
            /\ \/ UNCHANGED <<connection, connOpen, dialed, sent>>
               \/ \E h \in Handles :
                     /\ Dial(h)
                     /\ connection' = h
                     /\ \/ UNCHANGED sent
                        \/ sent' = Append(sent,
                                     TextFrame(Resume, sequence, sessionId, h, "main"))
    /\ UNCHANGED <<gateway, sessionId, resumeGateway, heartbeatInterval,
                   lastHeartbeatAcked, sequence, messageChannel, chanClosed, errCh,
                   ctxDone, hbStage, hbSeq, mainMsg, readBuf, listenConn, dcConn,
                   ctgConn, closeCalls, dcCloseCalls, frameBudget, inbound, framesRead,
                   ticks, tickerPeriod, lastTickAt, dcCalls, runs, result, crashed,
                   maxDispatched, maxHandled, hbFloor, hbPending, zombieSeen,
                   cancelInLoop, firstFrame, lastTaken, onEventCalls, seqBefore,
                   writing, acksHandled>>

\* newClient := NewBot(c.token); newClient.ConnectToGateway(): the handshake
\* of the new client on a connection of its own, which either fails, or sends
\* Identify and stays in the new client's startListening.  The new client's
\* fields are its own; what it does after Identify is not followed here.
NewClientConnectV1 ==
    /\ pc.main = "newbot"
    /\ \/ /\ pc' = [pc EXCEPT !.main = "sequpd"]
          /\ UNCHANGED <<connOpen, dialed, sent>>
       \/ \E h \in Handles :
             /\ Dial(h)
             /\ sent' = Append(sent, TextFrame(Identify, 0, "", h, "new"))
             /\ pc' = [pc EXCEPT !.main = "nested"]
    /\ UNCHANGED <<gateway, sessionId, resumeGateway, heartbeatInterval,
                   lastHeartbeatAcked, sequence, isResuming, connection,
                   messageChannel, chanClosed, errCh, ctxDone, hbStage, hbSeq, mainMsg,
                   readBuf, listenConn, dcConn, ctgConn, closeCalls, dcCloseCalls,
                   frameBudget, inbound, framesRead, ticks, tickerPeriod, lastTickAt,
                   dcCalls, runs, result, crashed, maxDispatched, maxHandled, hbFloor,
                   hbPending, zombieSeen, cancelInLoop, firstFrame, lastTaken,
                   onEventCalls, seqBefore, writing, acksHandled>>

\* the new client's startListening returns; c = newClient binds the receiver
\* variable only, the client the loop runs on is unchanged
NewClientReturnV1 ==
    /\ pc.main = "nested"
    /\ pc' = [pc EXCEPT !.main = "sequpd"]
    /\ UNCHANGED <<gateway, sessionId, resumeGateway, heartbeatInterval,
                   lastHeartbeatAcked, sequence, isResuming, connection,
                   messageChannel, chanClosed, errCh, ctxDone, hbStage, hbSeq, mainMsg,
                   readBuf, listenConn, dcConn, ctgConn, connOpen, dialed, closeCalls,
                   dcCloseCalls, sent, frameBudget, inbound, framesRead, ticks,
                   tickerPeriod, lastTickAt, dcCalls, runs, result, crashed,
                   maxDispatched, maxHandled, hbFloor, hbPending, zombieSeen,
                   cancelInLoop, firstFrame, lastTaken, onEventCalls, seqBefore,
                   writing, acksHandled>>

\* if message.S > c.sequence { c.sequence = message.S }
SeqUpdateV1 ==
    /\ pc.main = "sequpd"
    /\ sequence' = IF mainMsg.s > sequence THEN mainMsg.s ELSE sequence
    /\ pc' = [pc EXCEPT !.main = "range"]
    /\ maxHandled' = Max(maxHandled, Carried(mainMsg))
    /\ mainMsg' = NoMessage
    /\ UNCHANGED <<gateway, sessionId, resumeGateway, heartbeatInterval,
                   lastHeartbeatAcked, isResuming, connection, messageChannel,
                   chanClosed, errCh, ctxDone, hbStage, hbSeq, readBuf, listenConn,
                   dcConn, ctgConn, connOpen, dialed, closeCalls, dcCloseCalls, sent,
                   frameBudget, inbound, framesRead, ticks, tickerPeriod, lastTickAt,
                   dcCalls, runs, result, crashed, maxDispatched, hbFloor, hbPending,
                   zombieSeen, cancelInLoop, firstFrame, lastTaken, onEventCalls,
                   seqBefore, writing, acksHandled>>

NextV1 ==
    \/ CtgDialV1
    \/ CtgHelloV1
    \/ identifyV1
    \/ startListeningV1
    \/ ReaderReadV1
    \/ RangeV1
    \/ \E p \in {"main", "hb"} : sendHeartbeatV1(p)
    \/ HbTickV1
    \/ TSwitchV1
    \/ OpSwitchV1
    \/ resumeOldConnection
    \/ NewClientConnectV1
    \/ NewClientReturnV1
    \/ SeqUpdateV1

SpecV1 == InitV1 /\ [][NextV1]_vars


(* ---------------------------------------------------------------------- *)
(* Properties                                                              *)
(* ---------------------------------------------------------------------- *)
\* this step writes a Heartbeat frame to the transport
HeartbeatWritten ==
    /\ Len(sent') = Len(sent) + 1
    /\ sent'[Len(sent')].ws = "text"
    /\ sent'[Len(sent')].op = Heartbeat

\* the frames of sent that open a session: Identify or Resume
IsSessionFrame(f) == f.ws = "text" /\ f.op \in {Identify, Resume}

\* a session identity from a READY is cached
IdentityCached == sessionId # "" /\ resumeGateway # ""

\* C1: after any sequence of handled Dispatch packets the tracked sequence is
\* the maximum of the initial -1 and the sequence numbers those packets carried
C1_SequenceIsMaxOfDispatched == sequence = maxDispatched

\* C2: every Heartbeat frame written carries at least the highest sequence
\* number of the packets whose handling was complete when the heartbeat read
\* the tracked sequence
C2_HeartbeatCarriesHighestSequence ==
    [][HeartbeatWritten =>
         sent'[Len(sent')].seq >= hbFloor[sent'[Len(sent')].by]]_vars

\* C3: no Heartbeat frame is written while the Heartbeat frame written before
\* it is unacknowledged (no HeartbeatACK and no READY handled since)
C3_NoHeartbeatWhileUnacked == [][HeartbeatWritten => ~hbPending]_vars

\* C4: once a tick has found the previous heartbeat unacknowledged, the client
\* opens a new session with a Resume or a fresh Identify: it has done so by
\* the time ConnectToGateway returns for another reason than the cancellation
C4_ZombieTickReconnects ==
    (zombieSeen /\ pc.main = "returned" /\ result # "cancelled")
    => \E i \in 2..Len(sent) : IsSessionFrame(sent[i])

\* no packet that carries a sequence number has been dispatched on the session
FreshSession == maxDispatched = InitialSequence

\* this step handles the READY packet whose payload is a ReadyData object
ReadyHandled ==
    /\ pc.main = "tswitch"
    /\ mainMsg.t = "READY"
    /\ mainMsg.d.kind = "object"
    /\ pc'.main # "tswitch"
    /\ ~crashed'

\* this step ends the sendHeartbeat call of the READY case
ReadyHeartbeatReturns == pc.main = "ready_hb" /\ pc'.main = "opswitch"

\* this step writes the Heartbeat frame of the coordinator, with the initial
\* sequence
InitialHeartbeatWritten ==
    /\ HeartbeatWritten
    /\ sent'[Len(sent')].by = "main"
    /\ sent'[Len(sent')].seq = InitialSequence

\* the write of sendHeartbeat, called by the READY case, fails in this step
ReadyHeartbeatWriteFails ==
    ReadyHeartbeatReturns /\ hbStage.main \in {"write", "writing"} /\ sent' = sent

C6_NoResumeWithoutIdentity ==
    \A i \in 1..Len(sent) :
        (sent[i].ws = "text" /\ sent[i].op = Resume) => sent[i].sid # ""

\* C7: handling InvalidSession with resumable=false clears the cached session
\* identity
C7_InvalidSessionClearsIdentity ==
    [][(/\ pc.main = "opswitch"
        /\ mainMsg.op = InvalidSession
        /\ ~UnmarshalBool(mainMsg.d).err
        /\ ~UnmarshalBool(mainMsg.d).val
        /\ pc'.main = "select")
       => (sessionId' = "" /\ resumeGateway' = "")]_vars

\* C8: when the transport read has failed while a session identity is cached,
\* the client has sent a Resume frame with that session id and the tracked
\* sequence by the time ConnectToGateway is through with the failure
C8_ReadFailureResumes ==
    (pc.main = "returned" /\ result \in {"read_failed", "channel_closed"}
        /\ IdentityCached)
    => \E i \in 1..Len(sent) :
          /\ sent[i].ws = "text"
          /\ sent[i].op = Resume
          /\ sent[i].sid = sessionId

\* the reasons a caller of ConnectToGateway may see: the cancellation, or a
\* failure of the handshake
FatalResults ==
    {"gateway_unset", "dial_failed", "hello_read_failed", "hello_undecodable",
     "hello_wrong_op", "identify_failed", "connection_not_open"}

\* C9: ConnectToGateway returns only because the context was cancelled or the
\* handshake failed
C9_ReturnsOnlyOnCancelOrFatal ==
    pc.main = "returned" => result \in FatalResults \cup {"cancelled"}

\* C10: however often Disconnect is called, it closes a transport handle at
\* most once
C10_DisconnectClosesOnce == \A h \in Handles : dcCloseCalls[h] <= 1

\* C11: when cancel() ran while ConnectToGateway was in its receive loop and
\* no read of the transport has failed, ConnectToGateway, once returned, has
\* returned the cancellation error and the transport handle is closed
C11_CancelInLoopReturnsCancelled ==
    (cancelInLoop /\ pc.main = "returned"
        /\ errCh = <<>> /\ result # "read_failed")
    => /\ result = "cancelled"
       /\ listenConn \notin connOpen

\* C12: once cancel() has run while ConnectToGateway waits for the first
\* frame, ConnectToGateway leaves the wait only by returning, and not because
\* of a frame the server delivered: it returns the cancellation error or
\* the failure of the read
C12_CancelDuringHelloReturns ==
    [][(ctxDone /\ pc.main = "hello" /\ pc'.main # "hello")
       => (pc'.main = "returned"
           /\ result' \in {"cancelled", "hello_read_failed"})]_vars

\* the first frame has been read and it is a Hello of the gateway protocol
FirstFrameIsHello ==
    firstFrame # NoFirstFrame /\ firstFrame.wf /\ firstFrame.op = GatewayHello

\* C13: when the first frame read after dialing is not a Hello,
\* ConnectToGateway has returned an error, no Identify or other frame has been
\* written, neither the heartbeat goroutine nor the receive loop has been
\* started, and nothing has been dialed again
C13_NonHelloFirstFrameFails ==
    (firstFrame # NoFirstFrame /\ ~FirstFrameIsHello)
    => /\ pc.main = "returned"
       /\ result \in {"hello_undecodable", "hello_wrong_op"}
       /\ sent = <<>>
       /\ pc.hb = "off"
       /\ pc.reader = "off"
       /\ dialed = 1

\* C14: with the operation codes of the gateway protocol, a first frame with
\* op 10 is accepted as Hello, so that ConnectToGateway goes on to identify,
\* and a packet with op 11 is handled as the acknowledgement of a heartbeat,
\* so that the ack flag is set
C14_OpcodesHaveGatewayValues ==
    [][/\ (firstFrame = NoFirstFrame /\ FirstFrameIsHello')
          => pc'.main = "identify"
       /\ (pc.main = "opswitch" /\ mainMsg.op = GatewayHeartbeatACK
            /\ pc'.main = "sequpd")
          => lastHeartbeatAcked']_vars

\* C15: the loop of startListening is the only one to take frames from the
\* queue, it takes the frame at its head, and the frames it takes are the
\* frames the reader read, one after the other in the order they were read
C15_FramesHandledInReadOrder ==
    [][/\ (Len(messageChannel') < Len(messageChannel))
          => /\ pc.main = "select"
             /\ lastTaken' = Head(messageChannel).n
             /\ messageChannel' = Tail(messageChannel)
       /\ (lastTaken' # lastTaken)
          => /\ lastTaken' = lastTaken + 1
             /\ mainMsg' \in {mainMsg, Head(messageChannel)}]_vars

\* the second frame read is being handled, after the first
C15_SecondFrameAfterFirst ==
    pc.main = "tswitch" /\ mainMsg.n = 2 /\ lastTaken = 2

\* the number of calls of onEvent made for the packet at position n
OnEventCallsFor(calls, n) == Cardinality({i \in 1..Len(calls) : calls[i] = n})

\* C16, as stated: when the loop of startListening is through with a Dispatch
\* packet, onEvent has been called for it exactly once
C16_OnEventForEveryDispatch ==
    [][(mainMsg.wf /\ mainMsg.op = Dispatch /\ pc'.main = "select")
       => OnEventCallsFor(onEventCalls', mainMsg.n) = 1]_vars

\* C16: onEvent is called only by the loop of startListening while it handles
\* a Dispatch packet, one call at a time and for that packet; the calls are in
\* the order the packets were read; and when the loop is through with a
\* Dispatch packet, onEvent has been called for it exactly once, unless it is
\* a READY whose d did not decode, for which it has not been called
C16_OnEventOncePerDispatch ==
    [][/\ (onEventCalls' # onEventCalls)
          => /\ pc.main = "opswitch"
             /\ mainMsg.op = Dispatch
             /\ onEventCalls' = Append(onEventCalls, mainMsg.n)
       /\ \A i \in 1..Len(onEventCalls') : \A j \in 1..Len(onEventCalls') :
             i < j => onEventCalls'[i] < onEventCalls'[j]
       /\ (mainMsg.wf /\ mainMsg.op = Dispatch /\ pc'.main = "select")
          => OnEventCallsFor(onEventCalls', mainMsg.n)
                = IF mainMsg.t = "READY" /\ UnmarshalReady(mainMsg.d).err
                  THEN 0 ELSE 1]_vars

\* onEvent has been called for two Dispatch packets, the second one a READY
C16_TwoEvents ==
    /\ Len(onEventCalls) = 2
    /\ pc.main = "sequpd"
    /\ mainMsg.t = "READY"

\* no read of the transport has failed
NoReadError == errCh = <<>> /\ result # "read_failed"

\* C17: messageChannel never holds more than its capacity of 10 frames; while
\* the context is not cancelled, a reader that finds the channel full keeps
\* its frame and waits; and while the context is not cancelled and no read has
\* failed, no frame read is lost: the frames read are the ones the loop of
\* startListening has received, then the ones in the channel in the order
\* they were read, then the one the reader holds
C17_QueueBoundedAndLossless ==
    [][/\ Len(messageChannel') <= ChanCap
       /\ (pc.reader = "send" /\ Len(messageChannel) = ChanCap /\ ~ctxDone
            /\ ~crashed')
          => (pc'.reader = "send" /\ readBuf' = readBuf)
       /\ (~ctxDone' /\ NoReadError' /\ pc'.main \in LoopPcs)
          => /\ \A i \in 1..Len(messageChannel') :
                   messageChannel'[i].n = lastTaken' + i
             /\ framesRead' = lastTaken' + Len(messageChannel')
                                + (IF pc'.reader = "send" THEN 1 ELSE 0)
             /\ pc'.reader = "send" => readBuf'.n = framesRead']_vars

\* the reader holds the eleventh frame of a burst and waits for room in the
\* full channel
C17_ReaderBlockedOnFullQueue ==
    /\ Len(messageChannel) = ChanCap
    /\ pc.reader = "send"
    /\ readBuf.n = ChanCap + 1
    /\ ~ctxDone
    /\ ~crashed

\* C18: when the loop of startListening is through with a Reconnect packet,
\* be its op the Reconnect of opcodes.go or the one of the gateway protocol,
\* the connection the packet came on is closed and another one has been dialed
\* for the Resume or the Identify
C18_ReconnectClosesAndRedials ==
    [][(pc.main = "opswitch" /\ mainMsg.op \in {Reconnect, GatewayReconnect}
            /\ pc'.main # "opswitch" /\ ~crashed')
       => (listenConn \notin connOpen' /\ dialed' > 1)]_vars

\* C19: when the loop of startListening is through with an InvalidSession
\* packet whose d is true, be its op the InvalidSession of opcodes.go or the
\* one of the gateway protocol, and a session identity is cached, the client
\* has dialed the resume gateway
C19_ResumableInvalidSessionResumes ==
    [][(pc.main = "opswitch"
            /\ mainMsg.op \in {InvalidSession, GatewayInvalidSession}
            /\ ~UnmarshalBool(mainMsg.d).err
            /\ UnmarshalBool(mainMsg.d).val
            /\ IdentityCached
            /\ pc'.main # "opswitch" /\ ~crashed')
       => dialed' > 1]_vars

\* the operation codes handleMessage has a case for
KnownOps == {HeartbeatACK, Heartbeat, Reconnect, Dispatch, InvalidSession}

\* a packet with an operation code handleMessage has no case for
IsUnknownOp(m) == m.wf /\ m.op \notin KnownOps

\* a Dispatch packet with an event type handleMessage has no case for
IsUnknownEvent(m) ==
    m.wf /\ m.op = Dispatch /\ m.t \notin {"READY", "RESUMED", ""}

UndecodableHandled ==
    /\ ~crashed'
    /\ \/ /\ pc.main = "select"
          /\ messageChannel # <<>>
          /\ ~Head(messageChannel).wf
          /\ lastTaken' # lastTaken
       \/ /\ pc.main = "tswitch"
          /\ mainMsg.t = "READY"
          /\ UnmarshalReady(mainMsg.d).err
          /\ pc'.main # "tswitch"
       \/ /\ pc.main = "opswitch"
          /\ mainMsg.op = InvalidSession
          /\ UnmarshalBool(mainMsg.d).err
          /\ pc'.main # "opswitch"

\* C21: when the loop of startListening is through with a frame that does not
\* decode, it is not back at its select on the same open connection with
\* nothing dialed: the connection has gone through the reconnect policy
C21_UndecodableFrameReconnects ==
    [][UndecodableHandled
       => ~(pc'.main = "select" /\ listenConn \in connOpen'
             /\ connection' = listenConn /\ dialed' = dialed)]_vars

\* a resume attempt is under way: a Resume frame has been written on a
\* connection dialed for it, and no RESUMED has cleared isResuming
ResumeUnderWay ==
    /\ isResuming
    /\ \E i \in 1..Len(sent) : sent[i].ws = "text" /\ sent[i].op = Resume

\* C22: while a resume attempt is under way, a further reconnect trigger
\* starts no second attempt: the run of resumeOldConnection it leads to dials
\* nothing and writes nothing
C22_OneReconnectAtATime ==
    [][(ResumeUnderWay /\ pc.main = "resume" /\ pc'.main # "resume")
       => (dialed' = dialed /\ sent' = sent)]_vars

\* C23: when another connection replaces the current one, the handle it
\* replaces is closed by then
C23_ReplacedConnectionIsClosed ==
    [][(connection # Nil /\ connection' # Nil /\ connection' # connection)
       => connection \notin connOpen']_vars

\* ConnectToGateway has returned because the connection was lost
ConnectionLost ==
    pc.main = "returned" /\ result \in {"read_failed", "channel_closed"}

\* C24: once ConnectToGateway has returned because the connection was lost,
\* the heartbeat goroutine takes no tick, calls sendHeartbeat no more and
\* leaves the ack flag alone
C24_HeartbeatStopsWhenConnectionLost ==
    [][(ConnectionLost /\ ~ctxDone' /\ ~crashed')
       => /\ ticks' = ticks
          /\ (hbStage.hb = "none" => hbStage'.hb = "none")
          /\ lastHeartbeatAcked' = lastHeartbeatAcked]_vars

\* the second run of ConnectToGateway has stored the interval of its Hello
NewIntervalNegotiated ==
    /\ runs = 2
    /\ pc.main \notin {"start", "hello"}
    /\ result \notin {"gateway_unset", "dial_failed", "hello_read_failed",
                      "hello_undecodable", "hello_wrong_op"}

\* C25: once ConnectToGateway, run again on the same client with the same
\* uncancelled context, has negotiated a new interval, the ticker the earlier
\* run started delivers no tick
C25_OldTimerNeverFires ==
    [][(NewIntervalNegotiated /\ ~ctxDone)
       => ~(pc.old = "wait" /\ pc'.old = "tick")]_vars

\* Disconnect, called with a connection open, has returned nil: only its
\* c.connection.Store(nil) leaves the client without a connection after a dial
DisconnectReturned == dialed > 0 /\ connection = Nil /\ pc.dc = "idle"

\* C26: when Disconnect returns nil after a call with a connection open, the
\* handle is closed and no longer the current connection, and from then on
\* the heartbeat goroutine takes no tick and does not touch the ack flag
C26_DisconnectStopsEverything ==
    [][/\ (pc.dc = "store" /\ pc'.dc = "idle")
          => (dcConn \notin connOpen' /\ connection' # dcConn)
       /\ (DisconnectReturned /\ ~ctxDone' /\ ~crashed')
          => /\ \A g \in Tickers : ~(pc[g] = "wait" /\ pc'[g] = "tick")
             /\ lastHeartbeatAcked' = lastHeartbeatAcked]_vars

\* C27: after a Hello with heartbeatIntervalMs = N the ticker of the heartbeat
\* goroutine has a period of N milliseconds, and every tick it delivers, the
\* first one included, comes one full period after the previous one or after
\* the creation of the ticker: no tick comes at the moment the ticker starts
C27_TickerPeriodIsHelloInterval ==
    [][(pc.hb = "wait" /\ pc'.hb = "tick") =>
          /\ firstFrame.op = Hello
          /\ tickerPeriod.hb = firstFrame.interval * Millisecond
          /\ lastTickAt'.hb = lastTickAt.hb + firstFrame.interval * Millisecond
          /\ lastTickAt'.hb >= firstFrame.interval * Millisecond
          /\ lastTickAt'.hb > 0]_vars

\* the second tick of a ticker started after a Hello of 500 ms
C27_SecondTickAfterTwoPeriods ==
    /\ pc.hb = "tick"
    /\ firstFrame.interval = 500
    /\ lastTickAt.hb = 2 * 500 * Millisecond

\* C28: whenever handleMessage handles a server-sent Heartbeat packet, the
\* sendHeartbeat it calls writes one Heartbeat frame carrying the current
\* sequence before it returns
C28_ServerHeartbeatIsAnswered ==
    [][(pc.main = "op_hb" /\ pc'.main # "op_hb" /\ ~crashed') =>
          /\ HeartbeatWritten
          /\ sent'[Len(sent')].by = "main"
          /\ sent'[Len(sent')].seq = sequence]_vars

\* a step of handleMessage on a heartbeat acknowledgment (op 11 on the wire)
AckHandlingStep ==
    /\ mainMsg.wf
    /\ mainMsg.op = GatewayHeartbeatACK
    /\ pc.main \in {"tswitch", "opswitch", "sequpd"}
    /\ pc'.main # pc.main

\* C29: handling a HeartbeatAck packet sets lastHeartbeatAcked to true in the
\* switch on the operation code, and no step of the handling changes the
\* sequence, the session identity or the connection handle
C29_HeartbeatAckSetsFlagOnly ==
    [][AckHandlingStep =>
          /\ (pc.main = "opswitch" => lastHeartbeatAcked')
          /\ sequence' = sequence
          /\ sessionId' = sessionId
          /\ resumeGateway' = resumeGateway
          /\ connection' = connection]_vars

\* handleMessage returns, with or without an error, from the handling of a
\* packet that carries a sequence number
SequencedPacketHandled ==
    /\ mainMsg.wf
    /\ mainMsg.s > 0
    /\ pc.main \in LoopPcs \ {"select"}
    /\ pc'.main = "select"

\* C30: when the handling of a packet that carries a sequence number s ends,
\* whatever its operation code and whether or not the handling failed, the
\* sequence is the larger of s and the sequence when the handling began
C30_SequenceIsMaxAfterEveryPacket ==
    [][SequencedPacketHandled => sequence' = Max(seqBefore, mainMsg.s)]_vars

\* the units that write to a connection
Writers == {"main", "hb", "old", "dc"}

\* C31: at most one unit is inside a write to a connection at any time: the
\* ticker's sendHeartbeat, the sendHeartbeat of handleMessage and the close
\* frame of Disconnect never write to the same handle at the same time
C31_OneWriterAtATime ==
    \A a \in Writers : \A b \in Writers \ {a} :
        writing[a] # Nil => writing[b] # writing[a]

\* a call of sendHeartbeat that had cleared the ack flag returns an error
\* without having written its frame
SendHeartbeatFailsToWrite ==
    \E p \in {"main", "hb", "old"} :
        /\ hbStage[p] \in {"write", "writing"}
        /\ hbStage'[p] = "none"
        /\ sent' = sent
        /\ ~crashed'

\* C32: when sendHeartbeat cannot write its frame (nil connection or failed
\* write), the ack flag is as it was before the call: after the call it is
\* false only if a Heartbeat frame that was written awaits its acknowledgment
C32_FailedHeartbeatKeepsAckFlag ==
    [][SendHeartbeatFailsToWrite => (lastHeartbeatAcked' \/ hbPending')]_vars

\* the Heartbeat frames written to the transport so far
HeartbeatsWritten ==
    Cardinality({i \in 1..Len(sent) : sent[i].ws = "text" /\ sent[i].op = Heartbeat})

\* a tick's sendHeartbeat is refused because the Heartbeat frame written last
\* is unacknowledged
TickRefused ==
    \E g \in Tickers :
        /\ pc[g] = "tick"
        /\ hbStage[g] = "load"
        /\ hbStage'[g] = "none"
        /\ hbPending

\* C33: with a server that acknowledges every Heartbeat frame, the heartbeat
\* never dies. On a finite run: once the acknowledgment of every Heartbeat
\* frame written so far has been received and handled, and no write has
\* failed, no tick is refused as unacknowledged
C33_AcknowledgedHeartbeatGoesOn ==
    [][(acksHandled >= HeartbeatsWritten /\ ~ctxDone) => ~TickRefused]_vars

C35_QueueDrainedBeforeReadError ==
    [][(pc.main = "select" /\ result' = "read_failed") => messageChannel = <<>>]_vars

\* C36: time.NewTicker is called by startHeartbeat with a strictly positive
\* period, the heartbeat_interval of the accepted Hello in milliseconds; a Hello
\* whose heartbeat_interval is 0 or absent starts no ticker of period 0
C36_TickerPeriodIsPositive ==
    [][(pc.hb = "newticker" /\ pc'.hb # "newticker") =>
          /\ heartbeatInterval > 0
          /\ ~crashed'
          /\ tickerPeriod'.hb = firstFrame.interval * Millisecond]_vars

\* C37: a connection handle is closed at most once, whichever of the
\* cancellation case of startListening and Disconnect run, in any interleaving
C37_HandleClosedAtMostOnce == \A h \in Handles : closeCalls[h] <= 1

\* the reasons ConnectToGateway returns with from its handshake or from identify
HandshakeFailures ==
    {"hello_read_failed", "hello_undecodable", "hello_wrong_op", "identify_failed"}

\* C38: after ConnectToGateway has returned an error of the handshake or of
\* identify, no handle it dialed is open and none is stored as the current
\* connection
C38_FailedHandshakeLeavesNoConnection ==
    (pc.main = "returned" /\ result \in HandshakeFailures)
    => (connOpen = {} /\ connection = Nil)

\* the positions in sent of the Identify frames written to handle h
IdentifiesOn(h) ==
    {i \in 1..Len(sent) : sent[i].ws = "text" /\ sent[i].op = Identify /\ sent[i].h = h}

\* C39: on each connection, Identify is written at most once and before every
\* Heartbeat frame, and when identify has failed no heartbeat goroutine has
\* been started
C39_IdentifyFirstAndOnce ==
    /\ \A h \in Handles : Cardinality(IdentifiesOn(h)) <= 1
    /\ \A i \in 1..Len(sent) :
          (sent[i].ws = "text" /\ sent[i].op = Heartbeat)
          => \E j \in IdentifiesOn(sent[i].h) : j < i
    /\ (pc.main = "returned" /\ result = "identify_failed") => pc.hb = "off"
====
